---------------------------- MODULE Spec2Model ----------------------------
(***************************************************************************)
(* A model of the package ConcurrenceBasedClustering                        *)
(* (src/unnamed/part_000): the concurrence graph, its construction and      *)
(* validation, its aggregation, the completion of partitions, the quality   *)
(* models and the Louvain / Leiden optimizers.                              *)
(*                                                                          *)
(* A Go map[uint]T is a function whose domain is the set of stored keys; a  *)
(* Go slice of length n is a function on 0..n-1 (node-indexed) or a         *)
(* sequence (lists of communities).  log.Fatal ends the process: the        *)
(* variable fatal is set and no operation is enabled any more.              *)
(***************************************************************************)
EXTENDS Integers, Sequences, FiniteSets, TLC

VARIABLES
    cm,        \* the ConcurrenceModel object the caller holds (the receiver)
    ret,       \* the value returned by the last call, NoValue when none
    call,      \* the last call: its name and its arguments
    fatal,     \* TRUE once log.Fatal has ended the process
    heap,      \* the map[uint]bool objects allocated so far, by reference
    qm,        \* the quality model around cm: its kind and its r, NoValue when none
    stack      \* the activations of Louvain / Leiden in progress, innermost last

vars == <<cm, ret, call, fatal, heap, qm, stack>>

(***************************************************************************)
(* Bounds of the model                                                     *)
(***************************************************************************)
\* largest node count of a graph handed to SetConcurrences
MaxN == 3
\* largest weight of an edge of such a graph (a caller's change to the map
\* can write MaxWeight + 1, aggregation sums weights up)
MaxWeight == 1

NoValue == [kind |-> "none"]

(***************************************************************************)
(* Helpers on maps                                                         *)
(***************************************************************************)
EmptyMap == [x \in {} |-> 0]

Max(S) == CHOOSE x \in S : \A y \in S : y <= x

RECURSIVE SumOver(_, _)
\* the sum of f[x] for x in S, as the Go loops "for _, w := range m { s += w }"
SumOver(f, S) ==
    IF S = {} THEN 0
    ELSE LET x == CHOOSE y \in S : TRUE
         IN  f[x] + SumOver(f, S \ {x})

\* m[k] = v on a Go map: the key is added when it is not stored yet
MapPut(m, k, v) == [x \in DOMAIN m \cup {k} |-> IF x = k THEN v ELSE m[x]]

\* delete(m, k)
MapDel(m, k) == [x \in DOMAIN m \ {k} |-> m[x]]

(***************************************************************************)
(* struct ConcurrenceModel and its constructor                              *)
(***************************************************************************)
\* a float64 that holds the exact quotient num/den (den > 0)
Rat(num, den) == [num |-> num, den |-> den]

NewConcurrenceModel ==
    [ n                 |-> 0,
      sumConcurrences   |-> 0,
      sumConcurrencesOf |-> EmptyMap,
      meanConcurrenceOf |-> EmptyMap,
      varConcurrenceOf  |-> EmptyMap,
      concurrences      |-> EmptyMap ]

(***************************************************************************)
(* func verifyConcurrences: TRUE when it returns, FALSE when it ends in     *)
(* log.Fatalln.  The order in which the map is ranged over only decides     *)
(* which of the fatal messages is printed.                                  *)
(***************************************************************************)
\* the largest key met by the two nested range loops, starting from uint(0)
maxNodeID(concurrences) ==
    Max({0} \cup DOMAIN concurrences
            \cup UNION {DOMAIN concurrences[u] : u \in DOMAIN concurrences})

\* verifyConcurrences without the comparison weightVU != weightUV
AsymmetricConcurrence_PresenceOnly(concurrences) ==
    \E u \in DOMAIN concurrences : \E v \in DOMAIN concurrences[u] :
        \/ v \notin DOMAIN concurrences
        \/ u \notin DOMAIN concurrences[v]

\* some (u, v) reaches one of the two log.Fatalln("Asymmetric concurrence")
AsymmetricConcurrence(concurrences) ==
    \E u \in DOMAIN concurrences : \E v \in DOMAIN concurrences[u] :
        \/ v \notin DOMAIN concurrences
        \/ u \notin DOMAIN concurrences[v]
        \/ concurrences[v][u] # concurrences[u][v]

verifyConcurrences(n, concurrences) ==
    /\ ~AsymmetricConcurrence(concurrences)
    /\ ~(maxNodeID(concurrences) >= n)

(***************************************************************************)
(* func getSumConcurrencesOf                                                *)
(***************************************************************************)
\* a variant with "mySum = weightUV" for "mySum += weightUV"
getSumConcurrencesOf_LastWeight(n, concurrences) ==
    [u \in 0..(n - 1) |->
        IF u \in DOMAIN concurrences /\ DOMAIN concurrences[u] # {}
        THEN concurrences[u][Max(DOMAIN concurrences[u])]
        ELSE 0]

getSumConcurrencesOf(n, concurrences) ==
    [u \in 0..(n - 1) |->
        IF u \in DOMAIN concurrences
        THEN SumOver(concurrences[u], DOMAIN concurrences[u])
        ELSE 0]

(***************************************************************************)
(* func (cm *ConcurrenceModel) SetConcurrences: the fields it sets, given   *)
(* that verifyConcurrences returned.                                        *)
(***************************************************************************)
\* step 4: the nodewise mean of weights, sum / len(row)
meanOf(sumOf, concurrences, u) ==
    IF sumOf[u] = 0 THEN Rat(0, 1)
    ELSE Rat(sumOf[u], Cardinality(DOMAIN concurrences[u]))

\* step 5: the nodewise variance, (sum over v of (w - mean)^2) / len(row);
\* with mean = s/l this is (sum over v of (l*w - s)^2) / l^3
varOf(sumOf, concurrences, u) ==
    IF sumOf[u] = 0 THEN Rat(0, 1)
    ELSE LET row == concurrences[u]
             l   == Cardinality(DOMAIN row)
             sq  == [v \in DOMAIN row |->
                        (l * row[v] - sumOf[u]) * (l * row[v] - sumOf[u])]
         IN  Rat(SumOver(sq, DOMAIN row), l * l * l)

SetConcurrencesFields(n, concurrence) ==
    LET sumOf == getSumConcurrencesOf(n, concurrence)
    IN  [ n                 |-> n,
          sumConcurrences   |-> SumOver(sumOf, DOMAIN sumOf),
          sumConcurrencesOf |-> sumOf,
          meanConcurrenceOf |-> [u \in 0..(n - 1) |-> meanOf(sumOf, concurrence, u)],
          varConcurrenceOf  |-> [u \in 0..(n - 1) |-> varOf(sumOf, concurrence, u)],
          concurrences      |-> concurrence ]

(***************************************************************************)
(* Queries                                                                 *)
(***************************************************************************)
GetN(m) == m.n

GetConcurrencesOf(m, i) ==
    IF i \in DOMAIN m.concurrences THEN m.concurrences[i] ELSE EmptyMap

GetConcurrence(m, i, j) ==
    IF j \in DOMAIN GetConcurrencesOf(m, i) THEN GetConcurrencesOf(m, i)[j] ELSE 0

(***************************************************************************)
(* The weight maps a caller hands to SetConcurrences: a symmetric graph on  *)
(* the nodes 0..n-1, possibly changed in one place (an entry written or     *)
(* deleted, a pair of mirror entries written, an empty row added).  The id  *)
(* n itself can be used, which is out of range.                             *)
(***************************************************************************)
NodePairs(n) == {p \in (0..(n - 1)) \X (0..(n - 1)) : p[1] < p[2]}

\* the map of the undirected graph with weight e[<<u, v>>] on u < v (0: no edge)
GraphMap(n, e) ==
    LET nbrs(u) == {v \in 0..(n - 1) :
                       \/ (u < v /\ e[<<u, v>>] > 0)
                       \/ (v < u /\ e[<<v, u>>] > 0)}
    IN  [u \in {x \in 0..(n - 1) : nbrs(x) # {}} |->
            [v \in nbrs(u) |-> IF u < v THEN e[<<u, v>>] ELSE e[<<v, u>>]]]

\* one change a caller makes to a symmetric map before handing it over
Changes(n) ==
    {[kind |-> "none"]}
    \cup [kind : {"put"}, u : 0..n, v : 0..n, x : 0..(MaxWeight + 1)]
    \cup {c \in [kind : {"putBoth"}, u : 0..n, v : 0..n, x : 0..(MaxWeight + 1)] :
             c.u <= c.v}
    \cup [kind : {"delete"}, u : 0..n, v : 0..n]
    \cup [kind : {"addRow"}, u : 0..n]

PutEntry(w, u, v, x) ==
    MapPut(w, u, MapPut(IF u \in DOMAIN w THEN w[u] ELSE EmptyMap, v, x))

DelEntry(w, u, v) ==
    IF u \in DOMAIN w THEN MapPut(w, u, MapDel(w[u], v)) ELSE w

AddRow(w, u) == IF u \in DOMAIN w THEN w ELSE MapPut(w, u, EmptyMap)

Changed(w, c) ==
    CASE c.kind = "none"    -> w
      [] c.kind = "put"     -> PutEntry(w, c.u, c.v, c.x)
      [] c.kind = "putBoth" -> PutEntry(PutEntry(w, c.u, c.v, c.x), c.v, c.u, c.x)
      [] c.kind = "delete"  -> DelEntry(w, c.u, c.v)
      [] c.kind = "addRow"  -> AddRow(w, c.u)

(***************************************************************************)
(* Construction.  A model is built once and read afterwards: a caller makes *)
(* a fresh object with NewConcurrenceModel and sets its concurrences.       *)
(***************************************************************************)
\* cm := NewConcurrenceModel()
New ==
    /\ ~fatal
    /\ call.op # "New"
    /\ cm' = NewConcurrenceModel
    /\ ret' = NoValue
    /\ call' = [op |-> "New"]
    /\ UNCHANGED <<fatal, heap, qm, stack>>

\* cm.SetConcurrences(n, weights)
SetConcurrences(n, weights) ==
    /\ ~fatal
    /\ call.op = "New"
    /\ call' = [op |-> "SetConcurrences", n |-> n, weights |-> weights]
    /\ IF verifyConcurrences(n, weights)
       THEN /\ cm' = SetConcurrencesFields(n, weights)
            /\ UNCHANGED fatal
       ELSE /\ fatal' = TRUE
            /\ UNCHANGED cm
    /\ ret' = NoValue
    /\ UNCHANGED <<heap, qm, stack>>

\* the caller hands over a symmetric map changed in at most one place
Construct ==
    /\ ~fatal /\ call.op = "New"
    /\ \E n \in 0..MaxN : \E e \in [NodePairs(n) -> 0..MaxWeight] :
        LET symmetric == GraphMap(n, e)
        IN  \E c \in Changes(n) : SetConcurrences(n, Changed(symmetric, c))

Init ==
    /\ cm = NewConcurrenceModel
    /\ ret = NoValue
    /\ call = [op |-> "New"]
    /\ fatal = FALSE
    /\ heap = EmptyMap
    /\ qm = NoValue
    /\ stack = <<>>

Next == New \/ Construct

Spec == Init /\ [][Next]_vars

(***************************************************************************)
(* Claims about construction, checked under Spec                           *)
(***************************************************************************)
\* the ids a caller can ask about: those in range and two beyond
QueryIds == 0..(MaxN + 1)

\* a stored entry weights[u][v] without a mirror entry weights[v][u] of the same value
HasUnmirroredEntry(weights) ==
    \E u \in DOMAIN weights : \E v \in DOMAIN weights[u] :
        ~(v \in DOMAIN weights /\ u \in DOMAIN weights[v] /\ weights[v][u] = weights[u][v])

\* every key of the map, row or column
IdsOf(weights) == DOMAIN weights \cup UNION {DOMAIN weights[u] : u \in DOMAIN weights}

Returned(op) == call.op = op /\ ~fatal

\* C1: graph symmetry. After SetConcurrences returns, GetConcurrence(u, v) =
\* GetConcurrence(v, u) for every pair of ids, stored or not; and an input with
\* a stored entry whose mirror is missing or different ends fatally and leaves
\* the model as it was (the graph is never installed).
C1_GraphSymmetry ==
    /\ Returned("SetConcurrences") =>
          \A u \in QueryIds : \A v \in QueryIds :
              GetConcurrence(cm, u, v) = GetConcurrence(cm, v, u)
    /\ (call.op = "SetConcurrences" /\ HasUnmirroredEntry(call.weights)) =>
          (fatal /\ cm = NewConcurrenceModel)

\* C1 witness: a graph with an edge was installed
C1_Witness ==
    /\ Returned("SetConcurrences")
    /\ \E u \in QueryIds : \E v \in QueryIds : u # v /\ GetConcurrence(cm, u, v) > 0

\* C2: construction fails only on asymmetric weights or an id >= n: every
\* symmetric map whose ids are all < n, for every n >= 0 (n = 0 with the empty
\* map included), is accepted and yields a model with GetN() = n.
C2_ValidInputAccepted ==
    (call.op = "SetConcurrences"
        /\ ~HasUnmirroredEntry(call.weights)
        /\ \A id \in IdsOf(call.weights) : id < call.n)
    => (~fatal /\ GetN(cm) = call.n)

\* C3: self-loops are disallowed. No accepted model stores a weight from a node
\* to itself, and an input with an entry weights[u][u] is rejected.
C3_NoSelfLoops ==
    /\ Returned("SetConcurrences") =>
          \A u \in QueryIds : u \notin DOMAIN GetConcurrencesOf(cm, u)
    /\ (call.op = "SetConcurrences"
            /\ \E u \in DOMAIN call.weights : u \in DOMAIN call.weights[u])
          => fatal

(***************************************************************************)
(* Slices.  A Go slice of length k is a function on 0..k-1, so that an      *)
(* index of a community is also the node id it gets in the aggregated       *)
(* graph.                                                                   *)
(***************************************************************************)
SliceLen(s) == Cardinality(DOMAIN s)

\* append(s, x)
SliceAppend(s, x) ==
    [i \in 0..SliceLen(s) |-> IF i < SliceLen(s) THEN s[i] ELSE x]

(***************************************************************************)
(* func (cm ConcurrenceModel) Aggregate.  communities is a slice of sets    *)
(* of node ids (the keys of each map[uint]bool).  The result is the outcome *)
(* of newCM.SetConcurrences(newN, newConcurrences): fatal, or the new       *)
(* model.                                                                   *)
(***************************************************************************)
\* step 2, the inner two loops: weightI1I2 for the communities i1 < i2
weightI1I2(m, c1, c2) ==
    LET stored == {p \in c1 \X c2 :
                      /\ p[1] \in DOMAIN m.concurrences
                      /\ p[2] \in DOMAIN m.concurrences[p[1]]}
        w == [p \in stored |-> m.concurrences[p[1]][p[2]]]
    IN  SumOver(w, stored)

\* the outer two loops of step 2: weightI1I2 for every i1 < i2 < newN
aggregateWeights(m, communities) ==
    [p \in NodePairs(SliceLen(communities)) |->
        weightI1I2(m, communities[p[1]], communities[p[2]])]

\* a variant that stores the pair of entries also when the weight is 0
aggregateConcurrences_StoreZero(m, communities) ==
    LET newN == SliceLen(communities)
        wt == aggregateWeights(m, communities)
    IN  [i \in 0..(newN - 1) |-> [j \in (0..(newN - 1)) \ {i} |->
            IF i < j THEN wt[<<i, j>>] ELSE wt[<<j, i>>]]]

\* steps 1 and 2: newConcurrences, a row for every i < newN, and the two
\* mirror entries for every i1 < i2 with weightI1I2 > 0
aggregateConcurrences(m, communities) ==
    LET newN == SliceLen(communities)
        wt == aggregateWeights(m, communities)
        at(i, j) == IF i < j THEN wt[<<i, j>>] ELSE wt[<<j, i>>]
    IN  [i \in 0..(newN - 1) |->
            [j \in {x \in 0..(newN - 1) : x # i /\ at(i, x) > 0} |-> at(i, j)]]

ConcurrenceModelAggregate(m, communities) ==
    LET newN == SliceLen(communities)
        newConcurrences == aggregateConcurrences(m, communities)
    IN  IF verifyConcurrences(newN, newConcurrences)
        THEN [fatal |-> FALSE, cm |-> SetConcurrencesFields(newN, newConcurrences)]
        ELSE [fatal |-> TRUE]

(***************************************************************************)
(* Aggregation chains: a graph is constructed, aggregated over a list of    *)
(* groups, and the caller goes on with the aggregated model.                *)
(***************************************************************************)
\* longest list of groups handed to Aggregate
AggGroups == 2

\* the list of groups of an assignment a: node -> group index (0: in no group)
GroupsOf(nodes, k, a) == [i \in 0..(k - 1) |-> {u \in nodes : a[u] = i + 1}]

ConstructGraph ==
    /\ ~fatal /\ call.op = "New"
    /\ \E n \in 0..MaxN : \E e \in [NodePairs(n) -> 0..MaxWeight] :
          SetConcurrences(n, GraphMap(n, e))

\* ret := cm.Aggregate(communities); the caller takes up the returned model
\* before it aggregates again
Aggregate(communities) ==
    /\ ~fatal
    /\ ret = NoValue
    /\ call' = [op |-> "Aggregate", communities |-> communities]
    /\ \E out \in {ConcurrenceModelAggregate(cm, communities)} :
           IF out.fatal
           THEN fatal' = TRUE /\ ret' = NoValue
           ELSE ret' = [kind |-> "model", cm |-> out.cm] /\ UNCHANGED fatal
    /\ UNCHANGED <<cm, heap, qm, stack>>

AggregateAny ==
    /\ ~fatal /\ ret = NoValue
    /\ \E k \in 0..AggGroups : \E a \in [0..(MaxN - 1) -> 0..k] :
          Aggregate(GroupsOf(0..(MaxN - 1), k, a))

\* the returned model becomes the receiver of the next calls, as in
\* Modularity{qm.r, qm.ConcurrenceModel.Aggregate(communities)}
Adopt ==
    /\ ~fatal
    /\ ret.kind = "model"
    /\ cm' = ret.cm
    /\ ret' = NoValue
    /\ call' = [op |-> "Adopt"]
    /\ UNCHANGED <<fatal, heap, qm, stack>>

NextAgg == ConstructGraph \/ AggregateAny \/ Adopt

SpecAgg == Init /\ [][NextAgg]_vars

(***************************************************************************)
(* Claims about aggregation, checked under SpecAgg                          *)
(***************************************************************************)
RECURSIVE WeightUpTo(_, _, _)
\* GetConcurrence(u, 0) + ... + GetConcurrence(u, k - 1)
WeightUpTo(m, u, k) ==
    IF k = 0 THEN 0 ELSE WeightUpTo(m, u, k - 1) + GetConcurrence(m, u, k - 1)

RECURSIVE NodeSumsUpTo(_, _)
\* sumConcurrencesOf[0] + ... + sumConcurrencesOf[k - 1]
NodeSumsUpTo(m, k) ==
    IF k = 0 THEN 0 ELSE NodeSumsUpTo(m, k - 1) + m.sumConcurrencesOf[k - 1]

WeightSumsAgree(m) ==
    /\ DOMAIN m.sumConcurrencesOf = 0..(m.n - 1)
    /\ \A u \in 0..(m.n - 1) : m.sumConcurrencesOf[u] = WeightUpTo(m, u, m.n)
    /\ m.sumConcurrences = NodeSumsUpTo(m, m.n)

\* C4: weight-sum invariant. In every model made by SetConcurrences or by a
\* chain of Aggregate calls, sumConcurrencesOf[u] is the sum of the stored
\* weights of u (0 without a row) and sumConcurrences is the sum of
\* sumConcurrencesOf over all nodes.
C4_WeightSums ==
    /\ WeightSumsAgree(cm)
    /\ ret.kind = "model" => WeightSumsAgree(ret.cm)

\* C4 witness: an aggregated model of an aggregated model, with an edge that
\* sums several concurrences
C4_Witness ==
    /\ call.op = "Aggregate" /\ ret.kind = "model"
    /\ \E u \in 0..(cm.n - 1) : \E v \in 0..(cm.n - 1) :
          GetConcurrence(cm, u, v) > MaxWeight
    /\ \E i \in 0..(ret.cm.n - 1) : ret.cm.sumConcurrencesOf[i] >= 2

PairwiseDisjoint(communities) ==
    \A i \in DOMAIN communities : \A j \in DOMAIN communities :
        i # j => communities[i] \cap communities[j] = {}

RECURSIVE CrossWeight(_, _, _)
\* the sum of weight(p, q) over p in P and q in Q
CrossWeight(m, P, Q) ==
    IF P = {} \/ Q = {} THEN 0
    ELSE LET p == CHOOSE x \in P : TRUE
             q == CHOOSE x \in Q : TRUE
         IN  GetConcurrence(m, p, q) + CrossWeight(m, {p}, Q \ {q})
                                     + CrossWeight(m, P \ {p}, Q)

\* C8: Aggregate over a non-empty list of k pairwise disjoint groups returns a
\* graph of exactly k nodes in which the weight between distinct i and j is the
\* sum of the original weights between partition[i] and partition[j], with no
\* entry when that sum is 0, which is symmetric and stores no weight from a
\* node to itself.
C8_Aggregate ==
    (call.op = "Aggregate" /\ SliceLen(call.communities) >= 1
        /\ PairwiseDisjoint(call.communities))
    => /\ ~fatal
       /\ ret.kind = "model"
       /\ GetN(ret.cm) = SliceLen(call.communities)
       /\ DOMAIN ret.cm.concurrences \subseteq DOMAIN call.communities
       /\ \A i \in DOMAIN call.communities :
            /\ DOMAIN GetConcurrencesOf(ret.cm, i) \subseteq DOMAIN call.communities \ {i}
            /\ \A j \in DOMAIN call.communities \ {i} :
                 LET sum == CrossWeight(cm, call.communities[i], call.communities[j])
                 IN  /\ GetConcurrence(ret.cm, i, j) = sum
                     /\ GetConcurrence(ret.cm, j, i) = sum
                     /\ (j \in DOMAIN GetConcurrencesOf(ret.cm, i)) <=> (sum > 0)

\* C8 witness: two groups with weight inside a group and several edges across
C8_Witness ==
    /\ call.op = "Aggregate" /\ ret.kind = "model"
    /\ \E i \in DOMAIN call.communities : \E j \in DOMAIN call.communities :
          /\ i # j
          /\ CrossWeight(cm, call.communities[i], call.communities[i]) > 0
          /\ GetConcurrence(ret.cm, i, j) >= 2

(***************************************************************************)
(* func (cm ConcurrenceModel) GetCompleteCommunities.  Every map[uint]bool  *)
(* is an object of the heap, named by its index; communities and result are *)
(* slices of such references, so that a copy and an alias differ.           *)
(***************************************************************************)
\* the sets the references of a slice stand for
Deref(h, refs) == [i \in DOMAIN refs |-> h[refs[i]]]

RECURSIVE copyCommunities_Alias(_, _, _)
\* a variant of step 1 that appends the caller's map instead of myCommunity
copyCommunities_Alias(n, communities, st) ==
    LET i == SliceLen(st.result)
    IN  IF st.fatal \/ i = SliceLen(communities) THEN st
        ELSE LET community == st.heap[communities[i]]
             IN  IF \E point \in community : point >= n \/ st.pointMarkers[point]
                 THEN [st EXCEPT !.fatal = TRUE]
                 ELSE copyCommunities_Alias(n, communities,
                        [ heap         |-> st.heap,
                          result       |-> SliceAppend(st.result, communities[i]),
                          pointMarkers |-> [p \in 0..(n - 1) |->
                                              st.pointMarkers[p] \/ p \in community],
                          fatal        |-> FALSE ])

RECURSIVE copyCommunities_NoMarkerCheck(_, _, _)
\* a variant of step 1 without the test "if pointMarkers[point]"
copyCommunities_NoMarkerCheck(n, communities, st) ==
    LET i == SliceLen(st.result)
    IN  IF st.fatal \/ i = SliceLen(communities) THEN st
        ELSE LET community == st.heap[communities[i]]
             IN  IF \E point \in community : point >= n
                 THEN [st EXCEPT !.fatal = TRUE]
                 ELSE copyCommunities_NoMarkerCheck(n, communities,
                        [ heap         |-> SliceAppend(st.heap, community),
                          result       |-> SliceAppend(st.result, SliceLen(st.heap)),
                          pointMarkers |-> [p \in 0..(n - 1) |->
                                              st.pointMarkers[p] \/ p \in community],
                          fatal        |-> FALSE ])

RECURSIVE copyCommunities(_, _, _)
\* step 1: community after community is copied into a fresh map and its
\* points are marked; a point >= n or already marked is fatal.  The next
\* community to copy is the one at index len(result).
copyCommunities(n, communities, st) ==
    LET i == SliceLen(st.result)
    IN  IF st.fatal \/ i = SliceLen(communities) THEN st
        ELSE LET community == st.heap[communities[i]]
             IN  IF \E point \in community : point >= n \/ st.pointMarkers[point]
                 THEN [st EXCEPT !.fatal = TRUE]
                 ELSE copyCommunities(n, communities,
                        [ heap         |-> SliceAppend(st.heap, community),
                          result       |-> SliceAppend(st.result, SliceLen(st.heap)),
                          pointMarkers |-> [p \in 0..(n - 1) |->
                                              st.pointMarkers[p] \/ p \in community],
                          fatal        |-> FALSE ])

RECURSIVE addIsolatedPoints_All(_, _, _)
\* a variant of step 2 that does not look at pointMarkers
addIsolatedPoints_All(n, i, st) ==
    IF i >= n THEN st
    ELSE addIsolatedPoints_All(n, i + 1,
            [st EXCEPT !.heap = SliceAppend(@, {i}),
                       !.result = SliceAppend(@, SliceLen(st.heap))])

RECURSIVE addIsolatedPoints(_, _, _)
\* step 2: for i = 0 .. n-1, an unmarked point i is appended as map{i: true}
addIsolatedPoints(n, i, st) ==
    IF i >= n THEN st
    ELSE addIsolatedPoints(n, i + 1,
            IF st.pointMarkers[i] THEN st
            ELSE [st EXCEPT !.heap = SliceAppend(@, {i}),
                            !.result = SliceAppend(@, SliceLen(st.heap))])

\* [fatal, heap, result]: the heap after the call and the returned slice
GetCompleteCommunities(h, m, communities) ==
    LET start == [ heap         |-> h,
                   result       |-> EmptyMap,
                   pointMarkers |-> [p \in 0..(m.n - 1) |-> FALSE],
                   fatal        |-> FALSE ]
        step1 == copyCommunities(m.n, communities, start)
    IN  IF step1.fatal THEN [fatal |-> TRUE, heap |-> h]
        ELSE LET step2 == addIsolatedPoints(m.n, 0, step1)
             IN  [fatal |-> FALSE, heap |-> step2.heap, result |-> step2.result]

(***************************************************************************)
(* Completing partitions: a graph of n nodes is constructed, the caller     *)
(* makes a list of groups and has it completed, and may hand the result in  *)
(* again.                                                                   *)
(***************************************************************************)
\* longest list of groups handed to GetCompleteCommunities
PartGroups == 3

\* the path 0 - 1 - ... - (n-1) with unit weights
PathMap(n) ==
    [u \in {x \in 0..(n - 1) : n >= 2} |->
        [v \in {u - 1, u + 1} \cap (0..(n - 1)) |-> 1]]

ConstructPath ==
    /\ ~fatal /\ call.op = "New"
    /\ \E n \in 0..MaxN : SetConcurrences(n, PathMap(n))

\* ret := cm.GetCompleteCommunities(communities), the groups being objects
\* of the heap
CompleteCall(h, communities, again) ==
    /\ ~fatal
    /\ call' = [op |-> "GetCompleteCommunities", communities |-> communities,
                again |-> again]
    /\ \E out \in {GetCompleteCommunities(h, cm, communities)} :
           IF out.fatal
           THEN fatal' = TRUE /\ ret' = NoValue /\ heap' = h
           ELSE /\ ret' = [kind |-> "communities", communities |-> out.result]
                /\ heap' = out.heap
                /\ UNCHANGED fatal
    /\ UNCHANGED <<cm, qm, stack>>

\* the caller builds its groups: disjoint ones, with possibly one more id
\* put into one of them
Complete ==
    /\ ~fatal /\ heap = EmptyMap
    /\ \E k \in 0..PartGroups : \E a \in [0..(MaxN - 1) -> 0..k] :
       \E extra \in {<<0, 0>>} \cup ((1..k) \X (0..(MaxN - 1))) :
          LET groups == [i \in 0..(k - 1) |->
                            {u \in 0..(MaxN - 1) : a[u] = i + 1}
                            \cup (IF extra[1] = i + 1 THEN {extra[2]} ELSE {})]
          IN  CompleteCall(groups, [i \in 0..(k - 1) |-> i], FALSE)

\* the caller hands the returned list in again
CompleteAgain ==
    /\ ret.kind = "communities"
    /\ ~call.again
    /\ CompleteCall(heap, ret.communities, TRUE)

NextPart == ConstructPath \/ Complete \/ CompleteAgain

SpecPart == Init /\ [][NextPart]_vars

(***************************************************************************)
(* Claims about GetCompleteCommunities, checked under SpecPart              *)
(***************************************************************************)
\* the groups handed to the last call and the groups it returned
GivenGroups == Deref(heap, call.communities)
ReturnedGroups == Deref(heap, ret.communities)

Refs(refs) == {refs[i] : i \in DOMAIN refs}

\* pairwise disjoint groups with all ids < n
ValidPartial(n, groups) ==
    /\ PairwiseDisjoint(groups)
    /\ \A i \in DOMAIN groups : \A u \in groups[i] : u < n

\* C5: for pairwise disjoint groups with ids < n, GetCompleteCommunities
\* returns copies of the given groups in their order, followed by one singleton
\* per node in no given group, in ascending order of node id; every node id
\* of [0, n) is then in exactly one group.
C5_Completion ==
    (call.op = "GetCompleteCommunities" /\ ValidPartial(cm.n, GivenGroups))
    => /\ ~fatal /\ ret.kind = "communities"
       /\ LET k    == SliceLen(call.communities)
              len  == SliceLen(ret.communities)
              free == {u \in 0..(cm.n - 1) : \A i \in DOMAIN GivenGroups : u \notin GivenGroups[i]}
          IN  /\ len = k + Cardinality(free)
              /\ \A i \in 0..(k - 1) :
                    /\ ReturnedGroups[i] = GivenGroups[i]
                    /\ ret.communities[i] \notin Refs(call.communities)
              /\ \A j \in k..(len - 1) :
                    \E u \in free :
                        /\ ReturnedGroups[j] = {u}
                        /\ Cardinality({x \in free : x < u}) = j - k
              /\ \A u \in 0..(cm.n - 1) :
                    Cardinality({i \in 0..(len - 1) : u \in ReturnedGroups[i]}) = 1
              /\ (k = 0 => ReturnedGroups = [i \in 0..(cm.n - 1) |-> {i}])

\* C5 witness: two given groups were copied and two singletons appended
C5_Witness ==
    /\ call.op = "GetCompleteCommunities" /\ ret.kind = "communities"
    /\ ~call.again
    /\ SliceLen(call.communities) = 2
    /\ SliceLen(ret.communities) = 3
    /\ GivenGroups[0] = {1} /\ GivenGroups[1] = {}

\* C6: GetCompleteCommunities is idempotent. Handing the completed list in
\* again returns the same groups, and no group is appended.
C6_Idempotent ==
    (call.op = "GetCompleteCommunities" /\ call.again)
    => /\ ~fatal /\ ret.kind = "communities"
       /\ ReturnedGroups = GivenGroups

\* C6 witness: the second completion of a list that the first one extended
C6_Witness ==
    /\ call.op = "GetCompleteCommunities" /\ call.again /\ ~fatal
    /\ SliceLen(ret.communities) = 3
    /\ \E i \in DOMAIN ReturnedGroups : Cardinality(ReturnedGroups[i]) = 2

\* C7: a list of groups with a node id >= n, or with one node id in two
\* groups, ends GetCompleteCommunities fatally and no partition is returned.
C7_InvalidPartitionFatal ==
    (call.op = "GetCompleteCommunities"
        /\ \/ \E i \in DOMAIN GivenGroups : \E u \in GivenGroups[i] : u >= cm.n
           \/ ~PairwiseDisjoint(GivenGroups))
    => (fatal /\ ret = NoValue)

\* C7 witness: a node in two groups, all ids in range
C7_Witness ==
    /\ call.op = "GetCompleteCommunities" /\ fatal
    /\ ~PairwiseDisjoint(GivenGroups)
    /\ \A i \in DOMAIN GivenGroups : \A u \in GivenGroups[i] : u < cm.n

(***************************************************************************)
(* float64 results of the quality models.  The quotients are kept exact:    *)
(* Rat(num, den) with den > 0 is the number num/den, and the float NaN is   *)
(* the record with den = 0.  Every comparison with NaN is false.            *)
(***************************************************************************)
NaN == Rat(0, 0)

IsNaN(x) == x.den = 0

FloatSub(x, y) ==
    IF IsNaN(x) \/ IsNaN(y) THEN NaN
    ELSE Rat(x.num * y.den - y.num * x.den, x.den * y.den)

FloatEq(x, y) == ~IsNaN(x) /\ ~IsNaN(y) /\ x.num * y.den = y.num * x.den

FloatGreater(x, y) == ~IsNaN(x) /\ ~IsNaN(y) /\ x.num * y.den > y.num * x.den

(***************************************************************************)
(* struct Modularity: r and the embedded ConcurrenceModel m.                *)
(* With s = m.sumConcurrences, oneOverM = 1/s and rOverM = r/s, every term  *)
(* float64(w) - rOverM*ki*kj is (r.den*s*w - r.num*ki*kj) / (r.den*s), and  *)
(* the final "result *= oneOverM" divides the sum by s once more.           *)
(* With s = 0, oneOverM is +Inf: every k is 0, so a term is w - Inf*0*0,    *)
(* NaN, and without any term the result is 0.0 * Inf, NaN as well.          *)
(***************************************************************************)
\* the numerator of float64(w_ij) - rOverM*ki*kj over the denominator r.den*s
modularityTerm(r, m, i, j) ==
    r.den * m.sumConcurrences * GetConcurrence(m, i, j)
        - r.num * m.sumConcurrencesOf[i] * m.sumConcurrencesOf[j]

\* the three nested range loops: every community c, every i in c, every j in c
ModularityQuality(r, m, communities) ==
    LET s     == m.sumConcurrences
        terms == {t \in (DOMAIN communities) \X (0..(m.n - 1)) \X (0..(m.n - 1)) :
                     t[2] \in communities[t[1]] /\ t[3] \in communities[t[1]]}
        term  == [t \in terms |-> modularityTerm(r, m, t[2], t[3])]
    IN  IF s = 0 THEN NaN
        ELSE Rat(SumOver(term, terms), r.den * s * s)

\* the early return, then the loop over newCu's points and the loop over
\* oldCu's points other than u
ModularityDeltaQuality(r, m, communities, u, oldCu, newCu) ==
    LET s       == m.sumConcurrences
        newC    == communities[newCu]
        oldC    == communities[oldCu] \ {u}
        term    == [j \in newC \cup oldC |-> modularityTerm(r, m, u, j)]
    IN  IF oldCu = newCu THEN Rat(0, 1)
        ELSE IF s = 0 THEN NaN
        ELSE Rat(SumOver(term, newC) - SumOver(term, oldC), r.den * s * s)

(***************************************************************************)
(* struct CPM: r and the embedded ConcurrenceModel m.  The results are      *)
(* quotients over r.den.                                                    *)
(***************************************************************************)
\* sumWeightsOfC: the stored weights [i][j] with i and j both in c
sumWeightsOfC(m, c) ==
    LET stored == {p \in c \X c : p[2] \in DOMAIN GetConcurrencesOf(m, p[1])}
        w      == [p \in stored |-> m.concurrences[p[1]][p[2]]]
    IN  SumOver(w, stored)

CPMQuality(r, m, communities) ==
    LET part == [i \in DOMAIN communities |->
                    LET sizeC == Cardinality(communities[i])
                    IN  r.den * sumWeightsOfC(m, communities[i]) - r.num * sizeC * sizeC]
    IN  Rat(SumOver(part, DOMAIN communities), r.den)

CPMDeltaQuality(r, m, communities, u, oldCu, newCu) ==
    LET weightsOfU  == GetConcurrencesOf(m, u)
        oldC        == communities[oldCu]
        newC        == communities[newCu]
        deltaWOldCu == 0 - SumOver(weightsOfU, (oldC \ {u}) \cap DOMAIN weightsOfU)
        deltaWNewCu == SumOver(weightsOfU, newC \cap DOMAIN weightsOfU)
        sizeOldCu   == Cardinality(oldC)
        sizeNewCu   == Cardinality(newC)
    IN  IF oldCu = newCu THEN Rat(0, 1)
        ELSE Rat(r.den * (deltaWOldCu + deltaWNewCu)
                     - 2 * r.num * (sizeNewCu - sizeOldCu + 1), r.den)

(***************************************************************************)
(* interface QualityModel: q is the record [kind, r] of the implementing    *)
(* struct, m its embedded ConcurrenceModel.                                 *)
(***************************************************************************)
NewQuality(kind, r) == [kind |-> kind, r |-> r]

Quality(q, m, communities) ==
    IF q.kind = "Modularity" THEN ModularityQuality(q.r, m, communities)
    ELSE CPMQuality(q.r, m, communities)

DeltaQuality(q, m, communities, u, oldCu, newCu) ==
    IF q.kind = "Modularity"
    THEN ModularityDeltaQuality(q.r, m, communities, u, oldCu, newCu)
    ELSE CPMDeltaQuality(q.r, m, communities, u, oldCu, newCu)

\* the move of u that the optimizers make on the working partition:
\* delete(result[oldCu], u); result[newCu][u] = true
movePoint(communities, u, oldCu, newCu) ==
    LET removed == [communities EXCEPT ![oldCu] = @ \ {u}]
    IN  [removed EXCEPT ![newCu] = @ \cup {u}]

(***************************************************************************)
(* Specification SpecQ: a caller creates a quality model, sets a valid      *)
(* graph, and on a complete partition evaluates Quality, DeltaQuality of a  *)
(* move, makes the move, and evaluates Quality again.                       *)
(***************************************************************************)
\* the values of r the callers use
RValues == {Rat(1, 4), Rat(1, 1)}
\* and those they use with the Constant Potts Model
CPMRValues == {Rat(1, 4), Rat(3, 4), Rat(1, 1)}
\* largest number of groups of a partition handed to the quality functions
QGroups == 3

NewModularity ==
    /\ ~fatal /\ qm = NoValue /\ call.op = "New"
    /\ \E r \in RValues : qm' = NewQuality("Modularity", r)
    /\ cm' = NewConcurrenceModel
    /\ UNCHANGED <<ret, call, fatal, heap, stack>>

NewCPM ==
    /\ ~fatal /\ qm = NoValue /\ call.op = "New"
    /\ \E r \in CPMRValues : qm' = NewQuality("CPM", r)
    /\ cm' = NewConcurrenceModel
    /\ UNCHANGED <<ret, call, fatal, heap, stack>>

ConstructWeighted == qm # NoValue /\ ConstructGraph

EvaluateMove ==
    /\ ~fatal /\ qm # NoValue /\ call.op = "SetConcurrences"
    /\ \E k \in 1..QGroups :
         \E a \in [0..(cm.n - 1) -> 0..(k - 1)] :
           \E u \in 0..(cm.n - 1) :
             \E newCu \in 0..(k - 1) :
               LET communities == [i \in 0..(k - 1) |-> {v \in 0..(cm.n - 1) : a[v] = i}]
                   moved       == movePoint(communities, u, a[u], newCu)
               IN  /\ call' = [ op          |-> "DeltaQuality",
                                communities |-> communities,
                                u           |-> u,
                                oldCu       |-> a[u],
                                newCu       |-> newCu ]
                   /\ ret' = [ kind        |-> "quality",
                               before      |-> Quality(qm, cm, communities),
                               delta       |-> DeltaQuality(qm, cm, communities, u, a[u], newCu),
                               communities |-> moved,
                               after       |-> Quality(qm, cm, moved) ]
    /\ UNCHANGED <<cm, fatal, heap, qm, stack>>

NextQ == NewModularity \/ NewCPM \/ ConstructWeighted \/ EvaluateMove

SpecQ == Init /\ [][NextQ]_vars

(***************************************************************************)
(* Claims about the quality models                                          *)
(***************************************************************************)
\* C10: for Modularity on a valid graph with positive total weight, a
\* complete partition, a node u of group oldCu and another group newCu,
\* Quality(after the move) - Quality(before) equals DeltaQuality(before,
\* u, oldCu, newCu), exactly.
C10_ModularityDeltaConsistent ==
    ( /\ call.op = "DeltaQuality"
      /\ qm.kind = "Modularity"
      /\ cm.sumConcurrences > 0
      /\ call.oldCu # call.newCu )
        => FloatEq(FloatSub(ret.after, ret.before), ret.delta)

\* C11: for the Constant Potts Model on a valid graph, a complete partition,
\* a node u of group oldCu and another group newCu, Quality(after the
\* move) - Quality(before) equals DeltaQuality(before, u, oldCu, newCu),
\* exactly.
C11_CPMDeltaConsistent ==
    ( /\ call.op = "DeltaQuality"
      /\ qm.kind = "CPM"
      /\ call.oldCu # call.newCu )
        => FloatEq(FloatSub(ret.after, ret.before), ret.delta)

(***************************************************************************)
(* func Louvain and func Leiden.  The two functions have the same text but  *)
(* for the name of the function called in step (6.2); an activation is a    *)
(* record                                                                   *)
(*   fn            "Louvain" or "Leiden"                                    *)
(*   opts          the option list it was called with                       *)
(*   o             the three switches parsed from opts in step 1            *)
(*   result        the working partition, a slice of references             *)
(*   communityIDs  the community index of every point                       *)
(*   m             len(result) after step 2                                 *)
(*   moved         the moves accepted in the last iteration of step 4       *)
(*   sweeps        the number of iterations of step 4 made so far           *)
(*   newQM         the aggregated model of step (6.1), NoValue before       *)
(*   pc            the step to execute next                                 *)
(* A run-time panic and the overflow of the goroutine stack end the process *)
(* as log.Fatal does; ret tells which of them it was.                       *)
(***************************************************************************)
Zero == Rat(0, 1)

DefaultOptions == [useSeqSelector |-> TRUE, multiResolution |-> TRUE, shuffle |-> FALSE]

\* one case of the switch of step 1; any other string changes nothing
applyOption(o, opt) ==
    CASE opt = "priority selector"   -> [o EXCEPT !.useSeqSelector = FALSE]
      [] opt = "sequential selector" -> [o EXCEPT !.useSeqSelector = TRUE]
      [] opt = "single resolution"   -> [o EXCEPT !.multiResolution = FALSE]
      [] opt = "multiple resolution" -> [o EXCEPT !.multiResolution = TRUE]
      [] opt = "shuffle"             -> [o EXCEPT !.shuffle = TRUE]
      [] opt = "no shuffle"          -> [o EXCEPT !.shuffle = FALSE]
      [] OTHER                       -> o

RECURSIVE parseOptions(_, _)
\* step 1: the options are applied in the order of the list
parseOptions(opts, o) ==
    IF opts = <<>> THEN o
    ELSE parseOptions(Tail(opts), applyOption(o, Head(opts)))

\* step 3: communityIDs := make([]uint, n), then communityIDs[point] is set
\* for the communities in the order of the slice
communityIDsOf(n, h, result) ==
    [point \in 0..(n - 1) |->
        LET ids == {c \in DOMAIN result : point \in h[result[c]]}
        IN  IF ids = {} THEN 0 ELSE Max(ids)]

\* (4.1), (4.2): the access orders of the points that one iteration can use
PointOrders(n, shuffle) ==
    IF shuffle
    THEN {p \in [0..(n - 1) -> 0..(n - 1)] :
             \A i, j \in 0..(n - 1) : i # j => p[i] # p[j]}
    ELSE {[i \in 0..(n - 1) |-> i]}

RECURSIVE scanNewCu(_, _, _, _, _, _, _, _)
\* the loop "for newCu := uint(0); newCu < m; newCu++" of both selectors:
\* a strictly greater deltaQuality replaces the best one
scanNewCu(q, cmod, communities, u, oldCu, newCu, m, best) ==
    IF newCu >= m THEN best
    ELSE LET deltaQuality == DeltaQuality(q, cmod, communities, u, oldCu, newCu)
             next == IF FloatGreater(deltaQuality, best.bestDeltaQuality)
                     THEN [ bestDeltaQuality |-> deltaQuality,
                            bestU            |-> u,
                            oldCBestU        |-> oldCu,
                            bestNewCu        |-> newCu ]
                     ELSE best
         IN  \* the loop goes on with the value b of next
             CHOOSE r \in {scanNewCu(q, cmod, communities, u, oldCu, newCu + 1, m, b) :
                              b \in {next}} : TRUE

\* a variant that leaves the point in its old community
movePointInHeap_NoDelete(h, result, u, oldCu, newCu) ==
    [h EXCEPT ![result[newCu]] = @ \cup {u}]

\* delete(result[oldCu], u); result[newCu][u] = true, on the objects that
\* the slice result refers to
movePointInHeap(h, result, u, oldCu, newCu) ==
    LET removed == [h EXCEPT ![result[oldCu]] = @ \ {u}]
    IN  [removed EXCEPT ![result[newCu]] = @ \cup {u}]

\* what an accepted move was: the partition it was made on, the point, its
\* old and its new community, and the deltaQuality that made it the best
acceptedMove(communities, best) ==
    [ before       |-> communities,
      u            |-> best.bestU,
      oldCu        |-> best.oldCBestU,
      newCu        |-> best.bestNewCu,
      deltaQuality |-> best.bestDeltaQuality ]

RECURSIVE seqSelect_AcceptZero(_, _, _, _, _, _, _)
\* a variant that accepts a best deltaQuality of 0.0 as well
seqSelect_AcceptZero(q, cmod, result, m, points, i, st) ==
    IF i >= SliceLen(points) THEN st
    ELSE LET u     == points[i]
             oldCu == st.communityIDs[u]
             best  == scanNewCu(q, cmod, Deref(st.heap, result), u, oldCu, 0, m,
                          [ bestDeltaQuality |-> Zero,
                            bestU            |-> u,
                            oldCBestU        |-> oldCu,
                            bestNewCu        |-> oldCu ])
             after(b) ==
                 IF ~FloatGreater(Zero, b.bestDeltaQuality)
                 THEN [ heap         |-> movePointInHeap(st.heap, result, u, oldCu,
                                                         b.bestNewCu),
                        communityIDs |-> [st.communityIDs EXCEPT ![u] = b.bestNewCu],
                        done         |-> FALSE,
                        moved        |-> Append(st.moved,
                                            acceptedMove(Deref(st.heap, result), b)) ]
                 ELSE st
         IN  CHOOSE r \in {seqSelect_AcceptZero(q, cmod, result, m, points, i + 1, t) :
                              t \in {after(b) : b \in {best}}} : TRUE

RECURSIVE seqSelect(_, _, _, _, _, _, _)
\* (4.3), sequential selector: the points from points[i] on are visited, st
\* is [heap, communityIDs, done, moved], moved being the accepted moves of
\* this iteration so far
seqSelect(q, cmod, result, m, points, i, st) ==
    IF i >= SliceLen(points) THEN st
    ELSE LET u     == points[i]
             oldCu == st.communityIDs[u]
             best  == scanNewCu(q, cmod, Deref(st.heap, result), u, oldCu, 0, m,
                          [ bestDeltaQuality |-> Zero,
                            bestU            |-> u,
                            oldCBestU        |-> oldCu,
                            bestNewCu        |-> oldCu ])
             after(b) ==
                 IF FloatGreater(b.bestDeltaQuality, Zero)
                 THEN [ heap         |-> movePointInHeap(st.heap, result, u, oldCu,
                                                         b.bestNewCu),
                        communityIDs |-> [st.communityIDs EXCEPT ![u] = b.bestNewCu],
                        done         |-> FALSE,
                        moved        |-> Append(st.moved,
                                            acceptedMove(Deref(st.heap, result), b)) ]
                 ELSE st
         IN  \* the loop goes on with the value t of the state after u
             CHOOSE r \in {seqSelect(q, cmod, result, m, points, i + 1, t) :
                              t \in {after(b) : b \in {best}}} : TRUE

RECURSIVE prioritySelect(_, _, _, _, _, _, _, _)
\* (4.3), priority selector: the scan of all points from points[i] on
prioritySelect(q, cmod, communities, communityIDs, m, points, i, best) ==
    IF i >= SliceLen(points) THEN best
    ELSE LET u == points[i]
             next == scanNewCu(q, cmod, communities, u, communityIDs[u], 0, m, best)
         IN  \* the scan goes on with the value b of next
             CHOOSE r \in {prioritySelect(q, cmod, communities, communityIDs, m,
                                          points, i + 1, b) : b \in {next}} : TRUE

\* a variant of step 5 that keeps every community
removeEmpty_KeepAll(h, oldResult, i, result) == oldResult

RECURSIVE removeEmpty(_, _, _, _)
\* step 5: the references of the non-empty communities, in their order
removeEmpty(h, oldResult, i, result) ==
    IF i >= SliceLen(oldResult) THEN result
    ELSE removeEmpty(h, oldResult, i + 1,
             IF Cardinality(h[oldResult[i]]) > 0
             THEN SliceAppend(result, oldResult[i])
             ELSE result)

RECURSIVE flattenCommunities_FirstOnly(_, _, _, _)
\* a variant that copies the points of one community of aggC only
flattenCommunities_FirstOnly(aggCommunities, communities, i, st) ==
    IF i >= SliceLen(aggCommunities) THEN st
    ELSE LET aggC == st.heap[aggCommunities[i]]
             newC == IF aggC = {} THEN {}
                     ELSE st.heap[communities[CHOOSE x \in aggC : \A y \in aggC : x <= y]]
         IN  flattenCommunities_FirstOnly(aggCommunities, communities, i + 1,
                 [ heap   |-> SliceAppend(st.heap, newC),
                   result |-> SliceAppend(st.result, SliceLen(st.heap)) ])

RECURSIVE flattenCommunities(_, _, _, _)
\* func flattenCommunities: st is [heap, result]; a fresh map newC is made
\* for every aggC from aggCommunities[i] on
flattenCommunities(aggCommunities, communities, i, st) ==
    IF i >= SliceLen(aggCommunities) THEN st
    ELSE LET aggC == st.heap[aggCommunities[i]]
             newC == UNION {st.heap[communities[idxC]] : idxC \in aggC}
         IN  flattenCommunities(aggCommunities, communities, i + 1,
                 [ heap   |-> SliceAppend(st.heap, newC),
                   result |-> SliceAppend(st.result, SliceLen(st.heap)) ])

\* a variant in which Leiden starts from single point communities whatever
\* the communities it is given
enter_LeidenSingletons(fn, cmod, h, communities, opts) ==
    LET out == GetCompleteCommunities(h, cmod,
                   IF fn = "Leiden" THEN EmptyMap ELSE communities)
    IN  IF out.fatal THEN [fatal |-> TRUE, heap |-> h]
        ELSE [ fatal |-> FALSE,
               heap  |-> out.heap,
               frame |-> [ fn           |-> fn,
                           opts         |-> opts,
                           o            |-> parseOptions(opts, DefaultOptions),
                           result       |-> out.result,
                           communityIDs |-> communityIDsOf(cmod.n, out.heap, out.result),
                           m            |-> SliceLen(out.result),
                           moved        |-> <<>>,
                           sweeps       |-> 0,
                           newQM        |-> NoValue,
                           pc           |-> "loop" ] ]

\* steps 1 to 3 of a call fn(qm, communities, opts...) on the heap h:
\* [fatal, heap, frame]
enter(fn, cmod, h, communities, opts) ==
    LET out == GetCompleteCommunities(h, cmod, communities)
    IN  IF out.fatal THEN [fatal |-> TRUE, heap |-> h]
        ELSE [ fatal |-> FALSE,
               heap  |-> out.heap,
               frame |-> [ fn           |-> fn,
                           opts         |-> opts,
                           o            |-> parseOptions(opts, DefaultOptions),
                           result       |-> out.result,
                           communityIDs |-> communityIDsOf(cmod.n, out.heap, out.result),
                           m            |-> SliceLen(out.result),
                           moved        |-> <<>>,
                           sweeps       |-> 0,
                           newQM        |-> NoValue,
                           pc           |-> "loop" ] ]

(***************************************************************************)
(* Specification SpecOpt: a caller creates a quality model, sets a graph    *)
(* (or leaves the model empty), builds a list of disjoint groups as objects *)
(* of its own, and calls Louvain, Leiden or Aggregate once.  The optimizers *)
(* run step by step.                                                        *)
(***************************************************************************)
\* largest node count of a graph handed to the optimizers
OptN == 2
\* longest list of groups handed to the optimizers
OptGroups == 1
\* the number of nested activations at which the goroutine stack overflows
MaxDepth == 2

\* the option lists the callers use: each switch left alone or set away
\* from its default
OptionLists ==
    {sel \o res \o shf : sel \in {<<>>, <<"priority selector">>},
                         res \in {<<>>, <<"single resolution">>},
                         shf \in {<<>>, <<"shuffle">>}}

\* the lists of k groups a caller builds on n nodes: disjoint, non-empty,
\* and listed by their smallest members
CallerGroups(n, k) ==
    LET lists == {GroupsOf(0..(n - 1), k, a) : a \in [0..(n - 1) -> 0..k]}
    IN  {g \in lists :
            /\ \A i \in 0..(k - 1) : g[i] # {}
            /\ \A i \in 0..(k - 2) :
                  \E u \in g[i] : \A v \in g[i + 1] : u < v}

ConstructSmall ==
    /\ ~fatal /\ call.op = "New" /\ qm # NoValue
    /\ \E n \in 0..OptN : \E e \in [NodePairs(n) -> 0..MaxWeight] :
          SetConcurrences(n, GraphMap(n, e))

\* the call fn(qm, communities, opts...) of the caller, up to step 3, the
\* groups being objects of the caller
Called(fn, opts, groups) ==
    \E in \in {enter(fn, cm, groups, [i \in DOMAIN groups |-> i], opts)} :
        /\ call' = [ op          |-> fn,
                     communities |-> [i \in DOMAIN groups |-> i],
                     opts        |-> opts,
                     given       |-> groups,
                     receiver    |-> [cm |-> cm, qm |-> qm] ]
        /\ IF in.fatal
           THEN fatal' = TRUE /\ heap' = groups /\ stack' = <<>>
           ELSE /\ heap' = in.heap
                /\ stack' = <<in.frame>>
                /\ UNCHANGED fatal
        /\ ret' = NoValue
        /\ UNCHANGED <<cm, qm>>

Optimize(fn) ==
    \E opts \in OptionLists : \E k \in 0..OptGroups :
      \E groups \in CallerGroups(cm.n, k) : Called(fn, opts, groups)

Louvain ==
    /\ ~fatal /\ qm # NoValue /\ stack = <<>> /\ ret = NoValue /\ heap = EmptyMap
    /\ Optimize("Louvain")

Leiden ==
    /\ ~fatal /\ qm # NoValue /\ stack = <<>> /\ ret = NoValue /\ heap = EmptyMap
    /\ Optimize("Leiden")

\* one iteration of the loop of step 4 with the sequential selector
SweepSequential ==
    /\ ~fatal /\ stack # <<>>
    /\ LET top == Len(stack)
           fr  == stack[top]
       IN  /\ fr.pc = "loop" /\ fr.o.useSeqSelector
           /\ \E points \in PointOrders(cm.n, fr.o.shuffle) :
                \E st \in {seqSelect(qm, cm, fr.result, fr.m, points, 0,
                              [ heap         |-> heap,
                                communityIDs |-> fr.communityIDs,
                                done         |-> TRUE,
                                moved        |-> <<>> ])} :
                    /\ heap' = st.heap
                    /\ stack' = [stack EXCEPT ![top] =
                                    [fr EXCEPT !.communityIDs = st.communityIDs,
                                               !.moved = st.moved,
                                               !.sweeps = @ + 1,
                                               !.pc = IF st.done THEN "compact"
                                                      ELSE "loop"]]
    /\ UNCHANGED <<cm, ret, call, fatal, qm>>

\* one iteration of the loop of step 4 with the priority selector;
\* communityIDs[0] is an index out of range when n = 0
MovePriority ==
    /\ ~fatal /\ stack # <<>>
    /\ LET top == Len(stack)
           fr  == stack[top]
       IN  /\ fr.pc = "loop" /\ ~fr.o.useSeqSelector
           /\ IF cm.n = 0
              THEN /\ fatal' = TRUE
                   /\ ret' = [kind |-> "panic"]
                   /\ UNCHANGED <<heap, stack>>
              ELSE \E points \in PointOrders(cm.n, fr.o.shuffle) :
                     \E best \in {prioritySelect(qm, cm, Deref(heap, fr.result),
                                     fr.communityIDs, fr.m, points, 0,
                                     [ bestDeltaQuality |-> Zero,
                                       bestU            |-> 0,
                                       oldCBestU        |-> fr.communityIDs[0],
                                       bestNewCu        |-> fr.communityIDs[0] ])} :
                         /\ IF FloatEq(best.bestDeltaQuality, Zero)
                            THEN /\ stack' = [stack EXCEPT ![top] =
                                                 [fr EXCEPT !.moved = <<>>,
                                                            !.sweeps = @ + 1,
                                                            !.pc = "compact"]]
                                 /\ UNCHANGED heap
                            ELSE /\ heap' = movePointInHeap(heap, fr.result, best.bestU,
                                                best.oldCBestU, best.bestNewCu)
                                 /\ stack' = [stack EXCEPT ![top] =
                                                 [fr EXCEPT !.communityIDs[best.bestU] =
                                                                best.bestNewCu,
                                                            !.moved = <<acceptedMove(
                                                                Deref(heap, fr.result), best)>>,
                                                            !.sweeps = @ + 1]]
                         /\ UNCHANGED <<ret, fatal>>
    /\ UNCHANGED <<cm, call, qm>>

\* step 5, and the test of step 6
RemoveEmpty ==
    /\ ~fatal /\ stack # <<>>
    /\ LET top == Len(stack)
           fr  == stack[top]
       IN  /\ fr.pc = "compact"
           /\ stack' = [stack EXCEPT ![top] =
                           [fr EXCEPT !.result = removeEmpty(heap, fr.result, 0, EmptyMap),
                                      !.pc = IF fr.o.multiResolution THEN "recurse"
                                             ELSE "return"]]
    /\ UNCHANGED <<cm, ret, call, fatal, heap, qm>>

\* (6.1) newQM := qm.Aggregate(result) and (6.2) the call fn(qm, result,
\* opts...), up to its step 3
Recurse ==
    /\ ~fatal /\ stack # <<>>
    /\ LET top == Len(stack)
           fr  == stack[top]
       IN  /\ fr.pc = "recurse"
           /\ \E newQM \in {ConcurrenceModelAggregate(cm, Deref(heap, fr.result))} :
              \E in \in {enter(fr.fn, cm, heap, fr.result, fr.opts)} :
              IF newQM.fatal \/ in.fatal
              THEN /\ fatal' = TRUE
                   /\ UNCHANGED <<ret, heap, stack>>
              ELSE IF top >= MaxDepth
              THEN /\ fatal' = TRUE
                   /\ ret' = [kind |-> "stack overflow"]
                   /\ UNCHANGED <<heap, stack>>
              ELSE /\ heap' = in.heap
                   /\ stack' = Append([stack EXCEPT ![top] =
                                          [fr EXCEPT !.newQM = newQM.cm,
                                                     !.pc = "flatten"]], in.frame)
                   /\ UNCHANGED <<ret, fatal>>
    /\ UNCHANGED <<cm, call, qm>>

\* step 7, and in the calling activation (6.3) and its step 7 to come
Return ==
    /\ ~fatal /\ stack # <<>>
    /\ LET top == Len(stack)
           fr  == stack[top]
       IN  /\ fr.pc = "return"
           /\ IF top = 1
              THEN /\ ret' = [kind |-> "communities", communities |-> fr.result]
                   /\ stack' = <<>>
                   /\ UNCHANGED heap
              ELSE LET up        == stack[top - 1]
                       aggResult == fr.result
                       flat      == flattenCommunities(aggResult, up.result, 0,
                                        [heap |-> heap, result |-> EmptyMap])
                   IN  /\ IF SliceLen(aggResult) < GetN(up.newQM)
                          THEN /\ heap' = flat.heap
                               /\ stack' = [SubSeq(stack, 1, top - 1) EXCEPT ![top - 1] =
                                               [up EXCEPT !.result = flat.result,
                                                          !.pc = "return"]]
                          ELSE /\ stack' = [SubSeq(stack, 1, top - 1) EXCEPT
                                               ![top - 1].pc = "return"]
                               /\ UNCHANGED heap
                       /\ UNCHANGED ret
    /\ UNCHANGED <<cm, call, fatal, qm>>

\* the call qm.Aggregate(communities) of the caller
AggregateQuality ==
    /\ ~fatal /\ qm # NoValue /\ stack = <<>> /\ ret = NoValue /\ heap = EmptyMap
    /\ \E k \in 0..OptGroups : \E groups \in CallerGroups(cm.n, k) :
         LET refs   == [i \in 0..(k - 1) |-> i]
             out    == ConcurrenceModelAggregate(cm, Deref(groups, refs))
         IN  /\ call' = [ op          |-> "Aggregate",
                          communities |-> refs,
                          given       |-> groups,
                          receiver    |-> [cm |-> cm, qm |-> qm] ]
             /\ heap' = groups
             /\ IF out.fatal
                THEN fatal' = TRUE /\ ret' = NoValue
                ELSE /\ ret' = [kind |-> "qualityModel", qm |-> qm, cm |-> out.cm]
                     /\ UNCHANGED fatal
    /\ UNCHANGED <<cm, qm, stack>>

NextOpt ==
    \/ NewModularity \/ NewCPM \/ ConstructSmall
    \/ Louvain \/ Leiden \/ AggregateQuality
    \/ SweepSequential \/ MovePriority \/ RemoveEmpty \/ Recurse \/ Return

SpecOpt == Init /\ [][NextOpt]_vars

(***************************************************************************)
(* Claims about the inputs of the optimizers and of Aggregate               *)
(***************************************************************************)
\* C9: during and after a call of Aggregate, Louvain or Leiden the
\* receiving model (n, weights, sums, r) and every group of the
\* caller-supplied partition are what they were when the call was made.
C9_InputsUnchanged ==
    call.op \in {"Aggregate", "Louvain", "Leiden"} =>
        /\ cm = call.receiver.cm
        /\ qm = call.receiver.qm
        /\ Deref(heap, call.communities) = call.given

\* an optimizer has returned a partition in which a non-empty group of the
\* caller is no longer a group: the moves were made on the copies
C9_Witness ==
    /\ call.op \in {"Louvain", "Leiden"}
    /\ ret.kind = "communities"
    /\ \E i \in DOMAIN call.given :
          /\ call.given[i] # {}
          /\ \A j \in DOMAIN ret.communities : heap[ret.communities[j]] # call.given[i]

\* C13: a call of Louvain or Leiden on a valid quality model (a graph was
\* set) with a valid initial partition returns, whatever the options: it
\* never ends the process instead.
C13_CallReturns ==
    (call.op \in {"Louvain", "Leiden"} /\ cm.n >= 1) => ~fatal

(***************************************************************************)
(* Specification SpecMove: the local-moving phase.  A caller creates a      *)
(* quality model, sets a graph, and calls Louvain or Leiden once with       *)
(* "single resolution"; its list of groups may end with an empty group.     *)
(***************************************************************************)
SingleResolutionLists ==
    {sel \o <<"single resolution">> \o shf :
        sel \in {<<>>, <<"priority selector">>}, shf \in {<<>>, <<"shuffle">>}}

CallerGroupsOrEmpty(n, k) ==
    CallerGroups(n, k) \cup {SliceAppend(g, {}) : g \in CallerGroups(n, k)}

LouvainSingle ==
    /\ ~fatal /\ qm # NoValue /\ stack = <<>> /\ ret = NoValue /\ heap = EmptyMap
    /\ \E opts \in SingleResolutionLists : \E k \in 0..OptGroups :
         \E groups \in CallerGroupsOrEmpty(cm.n, k) : Called("Louvain", opts, groups)

LeidenSingle ==
    /\ ~fatal /\ qm # NoValue /\ stack = <<>> /\ ret = NoValue /\ heap = EmptyMap
    /\ \E opts \in SingleResolutionLists : \E k \in 0..OptGroups :
         \E groups \in CallerGroupsOrEmpty(cm.n, k) : Called("Leiden", opts, groups)

NextMove ==
    \/ NewModularity \/ NewCPM \/ ConstructSmall
    \/ LouvainSingle \/ LeidenSingle
    \/ SweepSequential \/ MovePriority \/ RemoveEmpty \/ Return

SpecMove == Init /\ [][NextMove]_vars

(***************************************************************************)
(* Claims about the local-moving phase                                      *)
(***************************************************************************)
\* the accepted moves of the last iteration of the innermost activation
LastMoves == IF stack = <<>> THEN <<>> ELSE stack[Len(stack)].moved

\* the partition an accepted move leads to
AfterMove(mv) == movePoint(mv.before, mv.u, mv.oldCu, mv.newCu)

\* C12: the Quality of the working partition never decreases from one
\* accepted move to the next (either selector, Modularity or CPM, r >= 0).
C12_QualityNeverDecreases ==
    \A i \in DOMAIN LastMoves :
        ~FloatGreater(Quality(qm, cm, LastMoves[i].before),
                      Quality(qm, cm, AfterMove(LastMoves[i])))

\* C14: the local-moving loop ends for both selectors and both quality
\* models (the process does not die in it), and with the sequential
\* selector it makes at most n * m sweeps, n being the node count and m the
\* number of groups of the completed initial partition.
C14_LoopEndsWithinBound ==
    /\ call.op \in {"Louvain", "Leiden"} => ~fatal
    /\ \A d \in DOMAIN stack :
          stack[d].o.useSeqSelector => stack[d].sweeps <= cm.n * stack[d].m

(***************************************************************************)
(* Specification SpecTriangles: the two-triangle scenario.  The graph has   *)
(* the triangles {0,1,2} and {3,4,5} with weight 10 on every edge of a      *)
(* triangle and the edge 1 - 3 of weight 1; Louvain or Leiden is called     *)
(* with an empty initial partition and an option list without "shuffle".    *)
(***************************************************************************)
TwoTriangles ==
    [u \in 0..5 |->
        [v \in {x \in 0..5 : x # u /\ (x \div 3 = u \div 3 \/ {x, u} = {1, 3})} |->
            IF v \div 3 = u \div 3 THEN 10 ELSE 1]]

\* the option lists that leave the access order of the points alone
NoShuffleLists ==
    {sel \o res : sel \in {<<>>, <<"priority selector">>},
                  res \in {<<>>, <<"single resolution">>}}

ConstructTriangles ==
    /\ ~fatal /\ call.op = "New" /\ qm # NoValue
    /\ SetConcurrences(6, TwoTriangles)

LouvainFromEmpty ==
    /\ ~fatal /\ qm # NoValue /\ stack = <<>> /\ ret = NoValue /\ heap = EmptyMap
    /\ call.op = "SetConcurrences"
    /\ \E opts \in NoShuffleLists : Called("Louvain", opts, EmptyMap)

LeidenFromEmpty ==
    /\ ~fatal /\ qm # NoValue /\ stack = <<>> /\ ret = NoValue /\ heap = EmptyMap
    /\ call.op = "SetConcurrences"
    /\ \E opts \in NoShuffleLists : Called("Leiden", opts, EmptyMap)

NextTriangles ==
    \/ NewModularity \/ NewCPM \/ ConstructTriangles
    \/ LouvainFromEmpty \/ LeidenFromEmpty
    \/ SweepSequential \/ MovePriority \/ RemoveEmpty \/ Recurse \/ Return

SpecTriangles == Init /\ [][NextTriangles]_vars

(***************************************************************************)
(* Claims about the two-triangle scenario                                   *)
(***************************************************************************)
\* the groups of a returned partition, as a set
GroupSet(h, refs) == {h[refs[i]] : i \in DOMAIN refs}

\* C15: on the two-triangle graph, Louvain with Modularity, r = 1.0, an
\* empty initial partition and default options comes to an end only by
\* returning exactly the groups {0,1,2} and {3,4,5}.
C15_TwoTrianglesLouvain ==
    ( /\ call.op = "Louvain"
      /\ call.opts = <<>>
      /\ qm = NewQuality("Modularity", Rat(1, 1))
      /\ (stack = <<>> \/ fatal) )
        => /\ ret.kind = "communities"
           /\ SliceLen(ret.communities) = 2
           /\ GroupSet(heap, ret.communities) = {{0, 1, 2}, {3, 4, 5}}

(***************************************************************************)
(* Similarities.  A similarity is a float64: an exact quotient Rat(num,     *)
(* den), NaN, or AnyFloat, a float64 that is not computed here (a value of  *)
(* math.Erf at a non-zero argument, or a result of arithmetic on such a     *)
(* value; it can be any float64, NaN and the infinities included).  NaN     *)
(* wins over AnyFloat in every operation.                                   *)
(***************************************************************************)
AnyFloat == Rat(0, -1)

IsAnyFloat(x) == x.den < 0

RECURSIVE GCD(_, _)
GCD(a, b) == IF b = 0 THEN a ELSE GCD(b, a % b)

\* the quotient num/den (den > 0) in lowest terms
Lowest(num, den) ==
    LET g == GCD(IF num < 0 THEN 0 - num ELSE num, den)
    IN  Rat(num \div g, den \div g)

FloatAdd(x, y) ==
    IF IsNaN(x) \/ IsNaN(y) THEN NaN
    ELSE IF IsAnyFloat(x) \/ IsAnyFloat(y) THEN AnyFloat
    ELSE Lowest(x.num * y.den + y.num * x.den, x.den * y.den)

FloatMul(x, y) ==
    IF IsNaN(x) \/ IsNaN(y) THEN NaN
    ELSE IF IsAnyFloat(x) \/ IsAnyFloat(y) THEN AnyFloat
    ELSE Lowest(x.num * y.num, x.den * y.den)

\* x / y; 0/0 is NaN, and a non-zero number over 0 is an infinity
FloatDiv(x, y) ==
    IF IsNaN(x) \/ IsNaN(y) THEN NaN
    ELSE IF IsAnyFloat(x) \/ IsAnyFloat(y) THEN AnyFloat
    ELSE IF y.num = 0 THEN (IF x.num = 0 THEN NaN ELSE AnyFloat)
    ELSE IF y.num > 0 THEN Lowest(x.num * y.den, x.den * y.num)
    ELSE Lowest(0 - x.num * y.den, 0 - x.den * y.num)

RECURSIVE FloatSumOver(_, _)
\* "s := 0.0; for x := range S { s += f[x] }"
FloatSumOver(f, S) ==
    IF S = {} THEN Rat(0, 1)
    ELSE LET x == CHOOSE y \in S : TRUE
         IN  FloatAdd(f[x], FloatSumOver(f, S \ {x}))

\* math.Erf: Erf(NaN) = NaN, Erf(0) = 0
Erf(x) ==
    IF IsNaN(x) THEN NaN
    ELSE IF IsAnyFloat(x) THEN AnyFloat
    ELSE IF x.num = 0 THEN Rat(0, 1)
    ELSE AnyFloat

\* math.Erf((float64(weight) - cm.meanConcurrenceOf[u]) / cm.varConcurrenceOf[u])
normalizedWeight(m, u, weight) ==
    Erf(FloatDiv(FloatSub(Rat(weight, 1), m.meanConcurrenceOf[u]),
                 m.varConcurrenceOf[u]))

\* the nodes that have a neighbor
nodesWithWeights(m) == {u \in 0..(m.n - 1) : DOMAIN GetConcurrencesOf(m, u) # {}}

\* row[v] for the keys given by entry, on top of row := {u: 1.0}
rowOf(u, keys, entry(_)) ==
    [v \in {u} \cup keys |-> IF v \in keys THEN entry(v) ELSE Rat(1, 1)]

\* func (cm ConcurrenceModel) InduceSimilarities: a node without neighbors
\* gets no row
InduceSimilarities(m) ==
    [u \in nodesWithWeights(m) |->
        LET weightsOfU == GetConcurrencesOf(m, u)
            cu == FloatDiv(Rat(1, 2), Rat(m.sumConcurrencesOf[u], 1))
            entry(v) ==
                LET cv == FloatDiv(Rat(1, 2), Rat(m.sumConcurrencesOf[v], 1))
                IN  FloatMul(Rat(weightsOfU[v], 1), FloatAdd(cu, cv))
        IN  rowOf(u, DOMAIN weightsOfU, entry)]

\* func (cm ConcurrenceModel) InduceNormalizedSimilarities
InduceNormalizedSimilarities(m) ==
    [u \in 0..(m.n - 1) |->
        LET weightsOfU == GetConcurrencesOf(m, u)
            entry(v) ==
                FloatMul(Rat(1, 2),
                    FloatAdd(normalizedWeight(m, u, weightsOfU[v]),
                             normalizedWeight(m, v, weightsOfU[v])))
        IN  rowOf(u, DOMAIN weightsOfU, entry)]

\* func (cm ConcurrenceModel) InduceJaccardSimilarities: a pair with an empty
\* intersection of neighborhoods gets no entry
InduceJaccardSimilarities(m) ==
    [u \in 0..(m.n - 1) |->
        LET neighborsU == DOMAIN GetConcurrencesOf(m, u)
            numInIntersection(v) ==
                Cardinality(neighborsU \cap DOMAIN GetConcurrencesOf(m, v))
            numInUnion(v) ==
                Cardinality(neighborsU)
                    + Cardinality(DOMAIN GetConcurrencesOf(m, v))
                    - numInIntersection(v)
            entry(v) == Rat(numInIntersection(v), numInUnion(v))
        IN  rowOf(u, {v \in neighborsU : numInIntersection(v) # 0}, entry)]

\* func (cm ConcurrenceModel) InduceWeightedJaccardSimilarities: a node
\* without neighbors gets no row
InduceWeightedJaccardSimilarities(m) ==
    [u \in nodesWithWeights(m) |->
        LET weightsOfU == GetConcurrencesOf(m, u)
            cu == FloatDiv(Rat(1, 1), Rat(m.sumConcurrencesOf[u], 1))
            entry(v) ==
                LET weightsOfV == GetConcurrencesOf(m, v)
                    cv == FloatDiv(Rat(1, 1), Rat(m.sumConcurrencesOf[v], 1))
                    term == [x \in DOMAIN weightsOfU \cap DOMAIN weightsOfV |->
                                FloatMul(FloatMul(Rat(weightsOfU[x] * weightsOfV[x], 1),
                                                  cu), cv)]
                IN  FloatSumOver(term, DOMAIN term)
        IN  rowOf(u, DOMAIN weightsOfU, entry)]

\* func (cm ConcurrenceModel) InduceNormalizedJaccardSimilarities: a node
\* without neighbors gets no row
InduceNormalizedJaccardSimilarities(m) ==
    LET sumNormalizedWeightsOf ==
            [u \in 0..(m.n - 1) |->
                LET weightsOfU == GetConcurrencesOf(m, u)
                    term == [v \in DOMAIN weightsOfU |->
                                normalizedWeight(m, u, weightsOfU[v])]
                IN  FloatSumOver(term, DOMAIN term)]
    IN  [u \in nodesWithWeights(m) |->
            LET weightsOfU == GetConcurrencesOf(m, u)
                cu == FloatDiv(Rat(1, 1), sumNormalizedWeightsOf[u])
                entry(v) ==
                    LET weightsOfV == GetConcurrencesOf(m, v)
                        cv == FloatDiv(Rat(1, 1), sumNormalizedWeightsOf[v])
                        term == [x \in DOMAIN weightsOfU \cap DOMAIN weightsOfV |->
                                    FloatMul(
                                        FloatMul(cu, normalizedWeight(m, u, weightsOfU[x])),
                                        FloatMul(cv, normalizedWeight(m, v, weightsOfV[x])))]
                    IN  FloatSumOver(term, DOMAIN term)
            IN  rowOf(u, DOMAIN weightsOfU, entry)]

\* step 2 of DBScan, PairDBScan and GroupPairDBScan: the switch on simType
similarityMatrix(m, simType) ==
    CASE simType = 0 -> InduceSimilarities(m)
      [] simType = 1 -> InduceNormalizedSimilarities(m)
      [] simType = 2 -> InduceJaccardSimilarities(m)
      [] simType = 3 -> InduceWeightedJaccardSimilarities(m)
      [] simType = 4 -> InduceNormalizedJaccardSimilarities(m)
      [] OTHER       -> EmptyMap

(***************************************************************************)
(* Neighborhoods.  The test "similarity+eps >= 1.0" is false for NaN and    *)
(* computed for an exact similarity.  For an AnyFloat similarity its        *)
(* outcome is an input of the run: passing is the set of the unordered      *)
(* pairs {pt, neighbor} whose entries pass (row[v] of u and row[u] of v are *)
(* the same float64).                                                       *)
(***************************************************************************)
within(similarity, eps, passes) ==
    IF IsNaN(similarity) THEN FALSE
    ELSE IF IsAnyFloat(similarity) THEN passes
    ELSE similarity.num * eps.den + eps.num * similarity.den
             >= similarity.den * eps.den

\* a variant that leaves the center point out of its neighborhood
neighborhood_Others(simMat, eps, passing, pt) ==
    {v \in DOMAIN simMat[pt] \ {pt} :
        within(simMat[pt][v], eps, {pt, v} \in passing)}

\* the keys of the row of pt whose similarity passes the test
neighborhood(simMat, eps, passing, pt) ==
    {v \in DOMAIN simMat[pt] : within(simMat[pt][v], eps, {pt, v} \in passing)}

\* the unordered pairs whose test is an input of the run
Undetermined(simMat) ==
    UNION {{{u, v} : v \in {x \in DOMAIN simMat[u] : IsAnyFloat(simMat[u][x])}} :
              u \in DOMAIN simMat}

\* func getCorePoints: [fatal, corePts]; the rows 0..len(simMat)-1 are read
getCorePoints(simMat, eps, minPts, passing) ==
    LET n == Cardinality(DOMAIN simMat)
        density(pt) == Cardinality(neighborhood(simMat, eps, passing, pt))
    IN  IF \E pt \in 0..(n - 1) : pt \notin DOMAIN simMat
        THEN [fatal |-> TRUE]
        ELSE [ fatal   |-> FALSE,
               corePts |-> [pt \in {p \in 0..(n - 1) : density(p) >= minPts} |->
                               density(pt)] ]

\* a variant that finds no core neighbor
getNeighbors_NoCore(simMat, eps, passing, corePts) ==
    LET near(pt) == neighborhood(simMat, eps, passing, pt) \ {pt}
    IN  [ core    |-> [pt \in DOMAIN corePts |-> {}],
          noncore |-> [pt \in DOMAIN corePts |-> near(pt) \ DOMAIN corePts] ]

\* func getNeighbors: [core, noncore]; every core point has a row
getNeighbors(simMat, eps, passing, corePts) ==
    LET near(pt) == neighborhood(simMat, eps, passing, pt) \ {pt}
    IN  [ core    |-> [pt \in DOMAIN corePts |-> near(pt) \cap DOMAIN corePts],
          noncore |-> [pt \in DOMAIN corePts |-> near(pt) \ DOMAIN corePts] ]

\* func MakeUintPair
MakeUintPair(i, j) == IF i < j THEN <<i, j>> ELSE <<j, i>>

\* func sim
sim(simMat, i, j) ==
    IF i \notin DOMAIN simMat THEN Rat(0, 1)
    ELSE IF j \notin DOMAIN simMat[i] THEN Rat(0, 1)
    ELSE simMat[i][j]

\* "if simP1P2 > 0.0": the entry is stored.  An AnyFloat entry is kept: an
\* entry that is absent and an entry that fails the test of the neighborhood
\* have the same effect.
positive(x) ==
    IF IsNaN(x) THEN FALSE ELSE IF IsAnyFloat(x) THEN TRUE ELSE x.num > 0

\* "if simIJ == 0.0 { continue }" not taken; AnyFloat as for positive
nonzero(x) == IsNaN(x) \/ IsAnyFloat(x) \/ x.num # 0

\* func getPairSimilarities: [fatal, pairSimMat]
getPairSimilarities(simMat) ==
    LET n == Cardinality(DOMAIN simMat)
        keys == UNION {DOMAIN simMat[u] : u \in 0..(n - 1)}
        pairs == {MakeUintPair(d[1], d[2]) :
                     d \in {e \in (0..(n - 1)) \X keys :
                               e[2] \in DOMAIN simMat[e[1]] /\ e[1] # e[2]}}
        simP1P2(pair1, pair2) ==
            FloatMul(Rat(1, 4),
                FloatAdd(FloatAdd(FloatAdd(sim(simMat, pair1[1], pair2[1]),
                                           sim(simMat, pair1[1], pair2[2])),
                                  sim(simMat, pair1[2], pair2[1])),
                         sim(simMat, pair1[2], pair2[2])))
    IN  IF \E u \in 0..(n - 1) : u \notin DOMAIN simMat
        THEN [fatal |-> TRUE]
        ELSE [ fatal      |-> FALSE,
               pairSimMat |->
                   [pair1 \in pairs |->
                       [pair2 \in {pair1} \cup
                            {p \in pairs \ {pair1} : positive(simP1P2(pair1, p))} |->
                           IF pair2 = pair1 THEN Rat(1, 1)
                           ELSE simP1P2(pair1, pair2)]] ]

\* func getCorePairs: the rows of the map are ranged over
getCorePairs(pairSimMat, eps, minPts, passing) ==
    LET density(pair) == Cardinality(neighborhood(pairSimMat, eps, passing, pair))
    IN  [pair \in {p \in DOMAIN pairSimMat : density(p) >= minPts} |-> density(pair)]

\* func getPairNeighbors
getPairNeighbors(pairSimMat, eps, passing, corePairs) ==
    getNeighbors(pairSimMat, eps, passing, corePairs)

\* func getGroupPairSimilarities: groups is a slice of sets of node ids
getGroupPairSimilarities(groups, pairSimMat) ==
    LET pairsOf(i) == {p \in groups[i] \X groups[i] : p[1] < p[2]}
        simSum(i, j) ==
            LET cells == {c \in pairsOf(i) \X pairsOf(j) :
                             /\ c[1] \in DOMAIN pairSimMat
                             /\ c[2] \in DOMAIN pairSimMat[c[1]]}
                term == [c \in cells |-> pairSimMat[c[1]][c[2]]]
            IN  FloatSumOver(term, cells)
        simIJ(i, j) ==
            FloatDiv(simSum(i, j),
                     Rat(Cardinality(pairsOf(i)) * Cardinality(pairsOf(j)), 1))
        lo(a, b) == IF a < b THEN a ELSE b
        hi(a, b) == IF a < b THEN b ELSE a
    IN  [i \in DOMAIN groups |->
            [j \in {i} \cup {x \in DOMAIN groups \ {i} :
                                nonzero(simSum(lo(i, x), hi(i, x)))} |->
                IF j = i THEN Rat(1, 1) ELSE simIJ(lo(i, j), hi(i, j))]]

(***************************************************************************)
(* DBScan, PairDBScan and GroupPairDBScan.  The three functions run the     *)
(* same steps 5 to 7 on a matrix of similarities between subjects: node     *)
(* ids, canonical pairs <<i, j>> of node ids, or indices of groups.  A call *)
(* is a frame [fn, subjects, corePts, coreNeighbors, noncoreNeighbors,      *)
(* sentinel, communityIDs, communities, boundary, todo, newBoundary, pc].   *)
(* subjects holds the keys of the matrix, which is all that step 6 reads of *)
(* it; communities is a slice of sets of subjects; todo holds the entries   *)
(* of boundary that the running "range boundary" has not yet visited.  A Go *)
(* map is ranged over in an order that the run time picks: every loop over  *)
(* a map takes its order as an input.                                       *)
(***************************************************************************)
RECURSIVE Orders(_)
\* the orders in which the keys S of a map can be ranged over
Orders(S) ==
    IF S = {} THEN {<<>>}
    ELSE UNION {{<<x>> \o p : p \in Orders(S \ {x})} : x \in S}

RECURSIVE FixedOrder(_)
\* one of the orders of S, the same one for the same S
FixedOrder(S) ==
    IF S = {} THEN <<>>
    ELSE LET x == CHOOSE y \in S : TRUE
         IN  <<x>> \o FixedOrder(S \ {x})

\* steps 2 of the three functions: [fatal, simMat], the matrix between
\* subjects
subjectMatrix(fn, m, groups, simType) ==
    LET simMat == similarityMatrix(m, simType)
        pairs  == getPairSimilarities(simMat)
    IN  CASE fn = "DBScan" -> [fatal |-> FALSE, simMat |-> simMat]
          [] fn = "PairDBScan" ->
                 IF pairs.fatal THEN [fatal |-> TRUE]
                 ELSE [fatal |-> FALSE, simMat |-> pairs.pairSimMat]
          [] fn = "GroupPairDBScan" ->
                 IF pairs.fatal THEN [fatal |-> TRUE]
                 ELSE [ fatal  |-> FALSE,
                        simMat |-> getGroupPairSimilarities(groups, pairs.pairSimMat) ]

\* steps 1, 3, 4 and the sentinel of step 5: [fatal, frame]
scanStart(fn, m, groups, simMat, eps, minPts, passing) ==
    LET core == IF fn = "PairDBScan"
                THEN [ fatal   |-> FALSE,
                       corePts |-> getCorePairs(simMat, eps, minPts, passing) ]
                ELSE getCorePoints(simMat, eps, minPts, passing)
        neighbors == IF fn = "PairDBScan"
                     THEN getPairNeighbors(simMat, eps, passing, core.corePts)
                     ELSE getNeighbors(simMat, eps, passing, core.corePts)
    IN  IF core.fatal THEN [fatal |-> TRUE]
        ELSE [ fatal |-> FALSE,
               frame |-> [ fn               |-> fn,
                           subjects         |-> DOMAIN simMat,
                           corePts          |-> core.corePts,
                           coreNeighbors    |-> neighbors.core,
                           noncoreNeighbors |-> neighbors.noncore,
                           sentinel         |-> CASE fn = "DBScan" -> GetN(m)
                                                  [] fn = "PairDBScan" ->
                                                         MakeUintPair(m.n, m.n)
                                                  [] fn = "GroupPairDBScan" ->
                                                         SliceLen(groups),
                           communityIDs     |-> EmptyMap,
                           communities      |-> EmptyMap,
                           boundary         |-> {},
                           todo             |-> {},
                           newBoundary      |-> {},
                           pc               |-> "center" ] ]

\* a variant of (5.2) without the test "density > centerDensity": the last
\* unassigned core point of the order becomes the center
selectCenter_AnyDensity(corePts, communityIDs, order, i, center) ==
    LET unassigned == {j \in i..Len(order) : order[j] \notin DOMAIN communityIDs}
    IN  IF unassigned = {} THEN center
        ELSE [pt |-> order[Max(unassigned)], density |-> corePts[order[Max(unassigned)]]]

RECURSIVE selectCenter(_, _, _, _, _)
\* (5.2): the loop over corePts in the given order; center is
\* [pt, density], that is centerPt and centerDensity
selectCenter(corePts, communityIDs, order, i, center) ==
    IF i > Len(order) THEN center
    ELSE LET pt == order[i]
         IN  selectCenter(corePts, communityIDs, order, i + 1,
                 IF pt \in DOMAIN communityIDs THEN center
                 ELSE IF corePts[pt] > center.density
                      THEN [pt |-> pt, density |-> corePts[pt]]
                      ELSE center)

\* (5.1) to (5.4) and the first half of (5.5)
centerStep(f, order) ==
    LET center == selectCenter(f.corePts, f.communityIDs, order, 1,
                               [pt |-> f.sentinel, density |-> 0])
        c      == SliceLen(f.communities)
        stop   == IF f.fn = "PairDBScan" THEN center.density = 0
                  ELSE center.pt = f.sentinel
    IN  IF stop THEN [f EXCEPT !.pc = "isolated"]
        ELSE [f EXCEPT !.communities  = SliceAppend(@, {center.pt}),
                       !.communityIDs = MapPut(@, center.pt, c),
                       !.boundary     = {center.pt},
                       !.todo         = {center.pt},
                       !.newBoundary  = {},
                       !.pc           = "expand"]

RECURSIVE addNeighbors(_, _, _, _, _)
\* one of the two loops over the neighbors of a boundary point, in the given
\* order; st is [communityIDs, newCommunity, newBoundary]
addNeighbors(order, i, c, isCore, st) ==
    IF i > Len(order) THEN st
    ELSE LET neighbor == order[i]
         IN  addNeighbors(order, i + 1, c, isCore,
                 IF neighbor \in DOMAIN st.communityIDs THEN st
                 ELSE [ communityIDs |-> MapPut(st.communityIDs, neighbor, c),
                        newCommunity |-> st.newCommunity \cup {neighbor},
                        newBoundary  |-> IF isCore
                                         THEN st.newBoundary \cup {neighbor}
                                         ELSE st.newBoundary ])

\* the orders of the row of bpt, when there is one
rowOrders(rows, bpt) ==
    IF bpt \in DOMAIN rows THEN Orders(rows[bpt]) ELSE {<<>>}

\* (5.5): the body of "for bpt := range boundary" for one bpt; after the
\* last one, "boundary = newBoundary" and the test "len(boundary) > 0"
visitStep(f, bpt, orderNoncore, orderCore) ==
    LET c   == SliceLen(f.communities) - 1
        st0 == [ communityIDs |-> f.communityIDs,
                 newCommunity |-> f.communities[c],
                 newBoundary  |-> f.newBoundary ]
        st1 == IF bpt \in DOMAIN f.noncoreNeighbors
               THEN addNeighbors(orderNoncore, 1, c, FALSE, st0)
               ELSE st0
        st2 == IF bpt \in DOMAIN f.coreNeighbors
               THEN addNeighbors(orderCore, 1, c, TRUE, st1)
               ELSE st1
        g   == [f EXCEPT !.communityIDs   = st2.communityIDs,
                         !.communities[c] = st2.newCommunity,
                         !.newBoundary    = st2.newBoundary,
                         !.todo           = @ \ {bpt}]
    IN  IF g.todo # {} THEN g
        ELSE IF g.newBoundary # {}
             THEN [g EXCEPT !.boundary    = g.newBoundary,
                            !.todo        = g.newBoundary,
                            !.newBoundary = {}]
             ELSE [g EXCEPT !.boundary = {}, !.pc = "center"]

RECURSIVE addIsolated(_, _, _, _)
\* step 6: the loop over the rows of the matrix in the given order
addIsolated(communityIDs, order, i, communities) ==
    IF i > Len(order) THEN communities
    ELSE addIsolated(communityIDs, order, i + 1,
             IF order[i] \in DOMAIN communityIDs THEN communities
             ELSE SliceAppend(communities, {order[i]}))

\* a variant of step 6 without the test "if !exists": every row gets a
\* community of its own
isolatedStep_EveryRow(f, order) ==
    [f EXCEPT !.communities = addIsolated(EmptyMap, FixedOrder(f.subjects), 1, @),
              !.pc          = "done"]

\* steps 6 and 7
isolatedStep(f, order) ==
    [f EXCEPT !.communities = addIsolated(f.communityIDs, order, 1, @),
              !.pc          = "done"]

RECURSIVE scanFrom(_)
\* the rest of the run in which every loop over a map takes FixedOrder
scanFrom(f) ==
    CASE f.pc = "done"     -> f.communities
      [] f.pc = "center"   -> scanFrom(centerStep(f, FixedOrder(DOMAIN f.corePts)))
      [] f.pc = "isolated" -> scanFrom(isolatedStep(f, FixedOrder(f.subjects)))
      [] f.pc = "expand"   ->
             LET bpt == CHOOSE x \in f.todo : TRUE
                 row(rows) == IF bpt \in DOMAIN rows
                              THEN FixedOrder(rows[bpt]) ELSE <<>>
             IN  scanFrom(visitStep(f, bpt, row(f.noncoreNeighbors),
                                    row(f.coreNeighbors)))

(***************************************************************************)
(* Specification SpecScan: a caller sets a graph on up to ScanN nodes and   *)
(* calls DBScan, PairDBScan or GroupPairDBScan once; the call runs step by  *)
(* step.  The weight of an edge is given by its end points, so that the     *)
(* graphs have rows of equal and rows of different weights.                 *)
(***************************************************************************)
\* largest number of nodes
ScanN == 3

\* largest minPts
MaxMinPts == 4

EpsValues == {Rat(1, 2), Rat(1, 1)}

SimTypes == 0..4

ScanWeight(u, v) == IF {u, v} = {0, 1} THEN 2 ELSE 1

ConstructScanGraph ==
    /\ ~fatal /\ call.op = "New"
    /\ \E n \in 0..ScanN : \E e \in [NodePairs(n) -> {0, 1}] :
          SetConcurrences(n, GraphMap(n, [p \in NodePairs(n) |->
                                             e[p] * ScanWeight(p[1], p[2])]))

\* the call fn(groups, eps, minPts, simType) up to step 4
Scan(fn, groups, simType, epsValues) ==
    /\ ~fatal /\ call.op = "SetConcurrences" /\ stack = <<>>
    /\ \E mat \in {subjectMatrix(fn, cm, groups, simType)} :
       \E eps \in epsValues, minPts \in 1..MaxMinPts :
          IF mat.fatal
          THEN /\ fatal' = TRUE
               /\ call' = [ op |-> fn, groups |-> groups, eps |-> eps,
                            minPts |-> minPts, simType |-> simType, passing |-> {} ]
               /\ UNCHANGED stack
          ELSE \E passing \in SUBSET Undetermined(mat.simMat) :
                 \E out \in {scanStart(fn, cm, groups, mat.simMat, eps, minPts,
                                       passing)} :
                    /\ call' = [ op |-> fn, groups |-> groups, eps |-> eps,
                                 minPts |-> minPts, simType |-> simType,
                                 passing |-> passing ]
                    /\ IF out.fatal
                       THEN fatal' = TRUE /\ UNCHANGED stack
                       ELSE stack' = <<out.frame>> /\ UNCHANGED fatal
    /\ ret' = NoValue
    /\ UNCHANGED <<cm, heap, qm>>

\* cm.DBScan(eps, minPts, simType)
DBScan == \E simType \in SimTypes : Scan("DBScan", EmptyMap, simType, EpsValues)

\* cm.PairDBScan(eps, minPts, simType)
PairDBScan == \E simType \in SimTypes : Scan("PairDBScan", EmptyMap, simType, EpsValues)

\* the groups a caller forms: runs a..b of two or more consecutive node ids,
\* which can overlap
NodeRuns(n) == {r \in (0..(n - 1)) \X (0..(n - 1)) : r[1] < r[2]}

\* the lists of no, one or two different groups
GroupLists(n) ==
    {EmptyMap}
    \cup {[i \in {0} |-> r[1]..r[2]] : r \in NodeRuns(n)}
    \cup {[i \in {0, 1} |-> IF i = 0 THEN p[1][1]..p[1][2] ELSE p[2][1]..p[2][2]] :
              p \in {q \in NodeRuns(n) \X NodeRuns(n) :
                         \/ q[1][1] < q[2][1]
                         \/ (q[1][1] = q[2][1] /\ q[1][2] < q[2][2])}}

\* cm.GroupPairDBScan(groups, eps, minPts, simType)
GroupPairDBScan ==
    /\ call.op = "SetConcurrences" /\ stack = <<>> /\ ~fatal
    /\ \E groups \in GroupLists(cm.n), simType \in SimTypes :
          Scan("GroupPairDBScan", groups, simType, EpsValues)

ScanFrame(pc) ==
    /\ ~fatal /\ stack # <<>>
    /\ stack[1].fn \in {"DBScan", "PairDBScan", "GroupPairDBScan"}
    /\ stack[1].pc = pc

\* the keys of a map that are in no community yet: a loop that skips the
\* others does the same wherever they come in its order
Unassigned(f, keys) == keys \ DOMAIN f.communityIDs

\* (5.1) to (5.4)
SelectCenter ==
    /\ ScanFrame("center")
    /\ \E order \in Orders(Unassigned(stack[1], DOMAIN stack[1].corePts)) :
          stack' = <<centerStep(stack[1], order)>>
    /\ UNCHANGED <<cm, ret, call, fatal, heap, qm>>

\* (5.5), one boundary point
VisitBoundaryPoint ==
    /\ ScanFrame("expand")
    /\ \E bpt \in stack[1].todo :
       \E orderNoncore \in rowOrders(stack[1].noncoreNeighbors, bpt) :
       \E orderCore \in rowOrders(stack[1].coreNeighbors, bpt) :
          stack' = <<visitStep(stack[1], bpt, orderNoncore, orderCore)>>
    /\ UNCHANGED <<cm, ret, call, fatal, heap, qm>>

\* steps 6 and 7
AddIsolatedPoints ==
    /\ ScanFrame("isolated")
    /\ \E order \in Orders(Unassigned(stack[1], stack[1].subjects)) :
          ret' = [ kind     |-> "clusters",
                   clusters |-> isolatedStep(stack[1], order).communities,
                   subjects |-> stack[1].subjects,
                   reached  |-> DOMAIN stack[1].communityIDs ]
    /\ stack' = <<>>
    /\ UNCHANGED <<cm, call, fatal, heap, qm>>

NextScan ==
    \/ ConstructScanGraph
    \/ DBScan \/ PairDBScan \/ GroupPairDBScan
    \/ SelectCenter \/ VisitBoundaryPoint \/ AddIsolatedPoints

SpecScan == Init /\ [][NextScan]_vars

(***************************************************************************)
(* Claims on SpecScan.                                                      *)
(***************************************************************************)
ScanFns == {"DBScan", "PairDBScan", "GroupPairDBScan"}

\* the indices of the returned clusters that hold the subject s
ClustersOf(s) == {i \in DOMAIN ret.clusters : s \in ret.clusters[i]}

\* C17: in the output of DBScan, PairDBScan and GroupPairDBScan every
\* subject with a row in the similarity matrix used is in exactly one
\* cluster, and a subject that no expansion reached is a cluster of its own.
C17_ScanClustersPartition ==
    (call.op \in ScanFns /\ ret.kind = "clusters")
        => /\ \A s \in ret.subjects : Cardinality(ClustersOf(s)) = 1
           /\ \A s \in ret.subjects \ ret.reached :
                 \E i \in DOMAIN ret.clusters : ret.clusters[i] = {s}

\* a call that returned a cluster of several subjects next to a subject
\* that was not reached
C17_Witness ==
    /\ call.op = "DBScan" /\ ret.kind = "clusters"
    /\ ret.subjects \ ret.reached # {}
    /\ \E i \in DOMAIN ret.clusters : Cardinality(ret.clusters[i]) >= 2

\* C18: on every valid graph, nodes without neighbors included, and for
\* every similarity type, DBScan returns a result in which every node id
\* in [0, n) is in exactly one cluster.
C18_ScanCoversNodes ==
    (call.op = "DBScan" /\ stack = <<>>)
        => /\ ret.kind = "clusters"
           /\ \A u \in 0..(cm.n - 1) : Cardinality(ClustersOf(u)) = 1

(***************************************************************************)
(* Specification SpecDensity: DBScan on the two-triangle graph, on the      *)
(* graph SharedBorder and on the graphs of SpecScan.  In SharedBorder the   *)
(* nodes 0 and 1 are not neighbors; 2, 3 and 4 are neighbors of both and 5  *)
(* is a neighbor of 1; every weight is 1.                                   *)
(***************************************************************************)
SharedBorder ==
    LET edges == {{0, 2}, {0, 3}, {0, 4}, {1, 2}, {1, 3}, {1, 4}, {1, 5}}
    IN  [u \in 0..5 |-> [v \in {x \in 0..5 : {u, x} \in edges} |-> 1]]

DensityEps == {Rat(3, 5), Rat(9, 10), Rat(1, 1)}

ConstructDensityGraph ==
    /\ ~fatal /\ call.op = "New"
    /\ \E weights \in {TwoTriangles, SharedBorder} : SetConcurrences(6, weights)

\* cm.DBScan(eps, minPts, simType)
DBScanDensity == \E simType \in SimTypes : Scan("DBScan", EmptyMap, simType, DensityEps)

NextDensity ==
    \/ ConstructScanGraph \/ ConstructDensityGraph
    \/ DBScanDensity
    \/ SelectCenter \/ VisitBoundaryPoint \/ AddIsolatedPoints

SpecDensity == Init /\ [][NextDensity]_vars

\* the set of the returned clusters
ClusterSet(clusters) == {clusters[i] : i \in DOMAIN clusters}

\* similarity + eps >= 1.0 for the plain similarity of u and v in the graph
PlainPasses(u, v) ==
    LET su == cm.sumConcurrencesOf[u]
        sv == cm.sumConcurrencesOf[v]
        w  == GetConcurrence(cm, u, v)
    IN  \* w * (1/(2*su) + 1/(2*sv)) + eps >= 1
        w * (su + sv) * call.eps.den + call.eps.num * 2 * su * sv
            >= 2 * su * sv * call.eps.den

\* eps makes every pair of a triangle pass and the pair (1, 3) fail
TriangleEps ==
    /\ \A u, v \in 0..5 : (u # v /\ u \div 3 = v \div 3) => PlainPasses(u, v)
    /\ ~PlainPasses(1, 3)

TriangleCall ==
    /\ call.op = "DBScan" /\ cm.n = 6 /\ cm.concurrences = TwoTriangles
    /\ call.simType = 0 /\ call.minPts = 3 /\ TriangleEps

\* C16: on the two-triangle graph DBScan with plain similarity, minPts = 3
\* and an eps that every pair of a triangle passes and the pair (1, 3) does
\* not returns exactly the two clusters {0,1,2} and {3,4,5}.
C16_TwoTrianglesDBScan ==
    (TriangleCall /\ stack = <<>>)
        => /\ ret.kind = "clusters"
           /\ SliceLen(ret.clusters) = 2
           /\ ClusterSet(ret.clusters) = {{0, 1, 2}, {3, 4, 5}}

C16_Witness ==
    /\ TriangleCall /\ call.eps = Rat(3, 5)
    /\ ret.kind = "clusters" /\ SliceLen(ret.clusters) = 2

\* the frame of the returned call at its step 5
FirstFrame ==
    scanStart(call.op, cm, call.groups,
              subjectMatrix(call.op, cm, call.groups, call.simType).simMat,
              call.eps, call.minPts, call.passing).frame

\* no two core subjects have the same density
NoDensityTies(f) ==
    \A p, q \in DOMAIN f.corePts : p # q => f.corePts[p] # f.corePts[q]

\* C19: when no two core subjects have equal density, every run of DBScan
\* on the same graph, eps, minPts and similarity type returns the same set
\* of clusters, in whatever order the maps are ranged over: the set of the
\* run in which every loop takes FixedOrder.
C19_ScanDeterministic ==
    (call.op = "DBScan" /\ ret.kind = "clusters")
        => \/ ~NoDensityTies(FirstFrame)
           \/ ClusterSet(ret.clusters) = ClusterSet(scanFrom(FirstFrame))

\* SharedBorder with minPts = 4 and eps = 1: the core points 0 and 1 have
\* the densities 4 and 5 and share the neighbors 2, 3 and 4
C19_Witness ==
    /\ call.op = "DBScan" /\ ret.kind = "clusters"
    /\ cm.concurrences = SharedBorder /\ call.simType = 0
    /\ DOMAIN FirstFrame.corePts = {0, 1}
    /\ NoDensityTies(FirstFrame)
    /\ ClusterSet(ret.clusters) = {{1, 2, 3, 4, 5}, {0}}

(***************************************************************************)
(* Specification SpecFlatten: flattenCommunities on its own.  A caller      *)
(* makes a list P of k non-empty groups that cover the nodes 0..n-1 once    *)
(* each and a list Q of groups, empty ones allowed, that cover the ids      *)
(* 0..k-1 once each, and calls flattenCommunities(Q, P).  The heap holds    *)
(* the groups of P, then those of Q, then the ones the call makes.          *)
(***************************************************************************)
\* largest number of original nodes
FlatN == 3

\* the lists of k non-empty groups that partition 0..n-1
NonEmptyPartitions(n, k) ==
    {GroupsOf(0..(n - 1), k, a) :
        a \in {b \in [0..(n - 1) -> 1..k] : \A i \in 1..k : \E u \in 0..(n - 1) : b[u] = i}}

\* the lists of m groups that partition 0..k-1
Partitions(k, m) == {GroupsOf(0..(k - 1), m, a) : a \in [0..(k - 1) -> 1..m]}

\* result := flattenCommunities(Q, P)
Flatten ==
    /\ ~fatal /\ call.op = "New"
    /\ \E n \in 0..FlatN : \E k \in 0..n : \E m \in 0..(k + 1) :
       \E P \in NonEmptyPartitions(n, k) : \E Q \in Partitions(k, m) :
          LET given == [i \in 0..(k + m - 1) |-> IF i < k THEN P[i] ELSE Q[i - k]]
              refsP == [i \in 0..(k - 1) |-> i]
              refsQ == [i \in 0..(m - 1) |-> k + i]
          IN  \E out \in {flattenCommunities(refsQ, refsP, 0,
                              [heap |-> given, result |-> EmptyMap])} :
                 /\ heap' = out.heap
                 /\ ret' = [kind |-> "communities", communities |-> out.result]
                 /\ call' = [ op |-> "flattenCommunities", n |-> n,
                              aggCommunities |-> refsQ, communities |-> refsP ]
    /\ UNCHANGED <<cm, fatal, qm, stack>>

NextFlatten == Flatten

SpecFlatten == Init /\ [][NextFlatten]_vars

\* the groups of the list refs that hold x
GroupsWith(refs, x) == {i \in DOMAIN refs : x \in heap[refs[i]]}

\* C20: for a partition P of the n nodes into k non-empty groups and a
\* partition Q of the ids 0..k-1, flattenCommunities(Q, P) holds every node
\* of 0..n-1 in exactly one group, and two nodes share a group of it iff
\* their groups of P share a group of Q.
C20_FlattenRoundTrip ==
    call.op = "flattenCommunities"
        => /\ \A u \in 0..(call.n - 1) :
                 Cardinality(GroupsWith(ret.communities, u)) = 1
           /\ \A u, v \in 0..(call.n - 1) :
                 (GroupsWith(ret.communities, u) \cap GroupsWith(ret.communities, v) # {})
                     <=> \E pu \in GroupsWith(call.communities, u),
                            pv \in GroupsWith(call.communities, v) :
                            GroupsWith(call.aggCommunities, pu)
                                \cap GroupsWith(call.aggCommunities, pv) # {}
           /\ UNION {heap[ret.communities[i]] : i \in DOMAIN ret.communities}
                  = 0..(call.n - 1)

\* three groups of P merged into two groups of Q, next to an empty group
C20_Witness ==
    /\ call.op = "flattenCommunities" /\ call.n = 3
    /\ SliceLen(call.communities) = 3
    /\ SliceLen(call.aggCommunities) = 3
    /\ \E i \in DOMAIN ret.communities : Cardinality(heap[ret.communities[i]]) = 2
    /\ \E i \in DOMAIN ret.communities : heap[ret.communities[i]] = {}

(***************************************************************************)
(* Louvain against Leiden.  Without "shuffle" a call is deterministic: the  *)
(* access order of (4.1) is 0, 1, ..., n-1 in every iteration.  A run is    *)
(* the record [heap, stack, ret, fatal]; nextOf gives the run after the     *)
(* next step of the innermost activation, as the text of the function that  *)
(* the activation executes prescribes it.                                   *)
(***************************************************************************)
ThisRun == [heap |-> heap, stack |-> stack, ret |-> ret, fatal |-> fatal]

\* the other of the two function names
otherOf(fn) == IF fn = "Louvain" THEN "Leiden" ELSE "Louvain"

\* the run in which every activation is one of the other function
twinOf(r) ==
    [r EXCEPT !.stack = [d \in DOMAIN r.stack |->
                            [r.stack[d] EXCEPT !.fn = otherOf(@)]]]

\* the run right after the caller's call fn(qm, communities, opts...), the
\* groups being objects of the caller
startOf(fn, cmod, groups, opts) ==
    LET in == enter(fn, cmod, groups, [i \in DOMAIN groups |-> i], opts)
    IN  IF in.fatal
        THEN [heap |-> groups, stack |-> <<>>, ret |-> NoValue, fatal |-> TRUE]
        ELSE [heap |-> in.heap, stack |-> <<in.frame>>, ret |-> NoValue,
              fatal |-> FALSE]

\* steps 4 to 7 of the innermost activation of r, one step at a time, with
\* the access order of (4.1) left as it is made
nextOf(q, cmod, r) ==
    IF r.fatal \/ r.stack = <<>> THEN r
    ELSE
    LET top    == Len(r.stack)
        fr     == r.stack[top]
        points == [i \in 0..(cmod.n - 1) |-> i]
    IN  CASE fr.pc = "loop" /\ fr.o.useSeqSelector ->
               LET st == seqSelect(q, cmod, fr.result, fr.m, points, 0,
                            [ heap         |-> r.heap,
                              communityIDs |-> fr.communityIDs,
                              done         |-> TRUE,
                              moved        |-> <<>> ])
               IN  [r EXCEPT !.heap = st.heap,
                             !.stack[top] =
                                 [fr EXCEPT !.communityIDs = st.communityIDs,
                                            !.moved = st.moved,
                                            !.sweeps = @ + 1,
                                            !.pc = IF st.done THEN "compact"
                                                   ELSE "loop"]]
          [] fr.pc = "loop" /\ ~fr.o.useSeqSelector ->
               IF cmod.n = 0
               THEN [r EXCEPT !.fatal = TRUE, !.ret = [kind |-> "panic"]]
               ELSE LET best == prioritySelect(q, cmod, Deref(r.heap, fr.result),
                                    fr.communityIDs, fr.m, points, 0,
                                    [ bestDeltaQuality |-> Zero,
                                      bestU            |-> 0,
                                      oldCBestU        |-> fr.communityIDs[0],
                                      bestNewCu        |-> fr.communityIDs[0] ])
                    IN  IF FloatEq(best.bestDeltaQuality, Zero)
                        THEN [r EXCEPT !.stack[top] =
                                           [fr EXCEPT !.moved = <<>>,
                                                      !.sweeps = @ + 1,
                                                      !.pc = "compact"]]
                        ELSE [r EXCEPT
                                !.heap = movePointInHeap(r.heap, fr.result, best.bestU,
                                             best.oldCBestU, best.bestNewCu),
                                !.stack[top] =
                                    [fr EXCEPT !.communityIDs[best.bestU] = best.bestNewCu,
                                               !.moved = <<acceptedMove(
                                                   Deref(r.heap, fr.result), best)>>,
                                               !.sweeps = @ + 1]]
          [] fr.pc = "compact" ->
               [r EXCEPT !.stack[top] =
                   [fr EXCEPT !.result = removeEmpty(r.heap, fr.result, 0, EmptyMap),
                              !.pc = IF fr.o.multiResolution THEN "recurse"
                                     ELSE "return"]]
          [] fr.pc = "recurse" ->
               LET newQM == ConcurrenceModelAggregate(cmod, Deref(r.heap, fr.result))
                   in    == enter(fr.fn, cmod, r.heap, fr.result, fr.opts)
               IN  IF newQM.fatal \/ in.fatal THEN [r EXCEPT !.fatal = TRUE]
                   ELSE IF top >= MaxDepth
                   THEN [r EXCEPT !.fatal = TRUE, !.ret = [kind |-> "stack overflow"]]
                   ELSE [r EXCEPT !.heap = in.heap,
                                  !.stack = Append([r.stack EXCEPT ![top] =
                                                       [fr EXCEPT !.newQM = newQM.cm,
                                                                  !.pc = "flatten"]],
                                                   in.frame)]
          [] fr.pc = "return" ->
               IF top = 1
               THEN [r EXCEPT !.ret = [kind |-> "communities", communities |-> fr.result],
                              !.stack = <<>>]
               ELSE LET up        == r.stack[top - 1]
                        aggResult == fr.result
                        flat      == flattenCommunities(aggResult, up.result, 0,
                                         [heap |-> r.heap, result |-> EmptyMap])
                    IN  IF SliceLen(aggResult) < GetN(up.newQM)
                        THEN [r EXCEPT !.heap = flat.heap,
                                       !.stack = [SubSeq(r.stack, 1, top - 1) EXCEPT
                                                     ![top - 1] =
                                                        [up EXCEPT !.result = flat.result,
                                                                   !.pc = "return"]]]
                        ELSE [r EXCEPT !.stack = [SubSeq(r.stack, 1, top - 1) EXCEPT
                                                     ![top - 1].pc = "return"]]
          [] OTHER -> r

\* the calls the statement is about: Louvain or Leiden without "shuffle"
PlainCall(c) ==
    /\ c.op \in {"Louvain", "Leiden"}
    /\ ~parseOptions(c.opts, DefaultOptions).shuffle

One == Rat(1, 1)

\* math.Min on float64 values: NaN if one of them is NaN
FloatMin(x, y) ==
    IF IsNaN(x) \/ IsNaN(y) THEN NaN
    ELSE IF FloatGreater(x, y) THEN y ELSE x

\* the entries <<i, j>> of distMat
entriesOf(distMat) ==
    UNION {{<<i, j>> : j \in DOMAIN distMat[i]} : i \in DOMAIN distMat}

\* step 1: the values [minDist, iMinDist, jMinDist] that the two range
\* loops can end with.  The rows are visited in the order of the slice, the
\* entries of a row in the order of the map, and only a strictly smaller
\* distance replaces minDist: the first row that holds the least distance
\* wins, with any of its entries of that distance.
findMinDist(distMat) ==
    LET below == {e \in entriesOf(distMat) : FloatGreater(One, distMat[e[1]][e[2]])}
    IN  IF below = {}
        THEN {[minDist |-> One, iMinDist |-> 0, jMinDist |-> 0]}
        ELSE LET least == CHOOSE e \in below : \A f \in below :
                              ~FloatGreater(distMat[e[1]][e[2]], distMat[f[1]][f[2]])
                 minDist == distMat[least[1]][least[2]]
                 hits == {e \in below : FloatEq(distMat[e[1]][e[2]], minDist)}
                 i == CHOOSE x \in {e[1] : e \in hits} :
                          \A y \in {e[1] : e \in hits} : x <= y
             IN  {[minDist |-> minDist, iMinDist |-> i, jMinDist |-> e[2]] :
                      e \in {f \in hits : f[1] = i}}

\* step 3, once iMinDist <= jMinDist: the loop over k that fills
\* newCommunities, a slice of len(communities) - 1 clusters
mergedCommunities(communities, iMinDist, jMinDist) ==
    [k \in 0..(SliceLen(communities) - 2) |->
        IF k < iMinDist THEN communities[k]
        ELSE IF k = iMinDist THEN communities[iMinDist] \cup communities[jMinDist]
        ELSE IF k < jMinDist THEN communities[k]
        ELSE communities[k + 1]]

\* step 4, the body of "for l, dist := range oldRow": the key and the value
\* written for the entry l of oldRow, NoValue when nothing is written
writtenFor(oldRow, l, iMinDist, jMinDist) ==
    IF l < iMinDist THEN [key |-> l, value |-> oldRow[l]]
    ELSE IF l = iMinDist
    THEN [key |-> l,
          value |-> IF jMinDist \in DOMAIN oldRow
                    THEN FloatMin(oldRow[l], oldRow[jMinDist])
                    ELSE oldRow[l]]
    ELSE IF l < jMinDist THEN [key |-> l, value |-> oldRow[l]]
    ELSE IF l > jMinDist THEN [key |-> l - 1, value |-> oldRow[l]]
    ELSE NoValue

\* step 4: the rows newRow that the range loop over oldRow can leave.  Two
\* entries are written under one key only when iMinDist = jMinDist; the one
\* written last stays, and the order of the map decides which one that is.
mergedRows(oldRow, iMinDist, jMinDist) ==
    LET writes == {writtenFor(oldRow, l, iMinDist, jMinDist) : l \in DOMAIN oldRow}
                      \ {NoValue}
        keys   == {w.key : w \in writes}
    IN  {newRow \in [keys -> {w.value : w \in writes}] :
            \A key \in keys : [key |-> key, value |-> newRow[key]] \in writes}

\* step 4: the matrices newDistMat that the loop over k can leave
mergedDistMats(distMat, newLen, iMinDist, jMinDist) ==
    LET oldK(k) == IF k >= jMinDist THEN k + 1 ELSE k
        rows == UNION {mergedRows(distMat[oldK(k)], iMinDist, jMinDist) :
                          k \in 0..(newLen - 1)}
    IN  {newDistMat \in [0..(newLen - 1) -> rows] :
            \A k \in 0..(newLen - 1) :
                newDistMat[k] \in mergedRows(distMat[oldK(k)], iMinDist, jMinDist)}

\* the activation of a call mergeClusters(distMat, communities, eps)
mergeFrame(distMat, communities, eps) ==
    [ fn          |-> "mergeClusters",
      distMat     |-> distMat,
      communities |-> communities,
      eps         |-> eps,
      iMinDist    |-> NoValue,
      jMinDist    |-> NoValue ]

(***************************************************************************)
(* Specification SpecMerge: mergeClusters on its own and under AHC.  A      *)
(* caller makes k single member clusters {0}, ..., {k-1}, as AHC, PairAHC   *)
(* and GroupPairAHC do, and a symmetric distance matrix without entries on  *)
(* the diagonal, and calls mergeClusters; or it sets a graph and calls AHC. *)
(* Every activation of mergeClusters is one step.                           *)
(***************************************************************************)
\* largest number of clusters handed to mergeClusters
MergeK == 3

\* the distances of the entries
MergeDistances == {Rat(1, 10), Rat(2, 5), Rat(7, 10), One}

\* the values of eps
MergeEps == {Rat(3, 10), Rat(1, 2), One}

\* the symmetric matrices on k clusters: e gives every pair of clusters a
\* distance, or NoValue for no entry
SymmetricMatrix(k, e) ==
    LET entry(i, j) == IF i < j THEN e[<<i, j>>] ELSE e[<<j, i>>]
    IN  [i \in 0..(k - 1) |->
            [j \in {x \in 0..(k - 1) : x # i /\ entry(i, x) # NoValue} |-> entry(i, j)]]

\* mergeClusters(distMat, communities, eps), called by the caller
MergeClusters ==
    /\ ~fatal /\ call.op = "New" /\ stack = <<>>
    /\ \E k \in 0..MergeK : \E eps \in MergeEps :
       \E e \in [NodePairs(k) -> MergeDistances \cup {NoValue}] :
          LET distMat     == SymmetricMatrix(k, e)
              communities == [i \in 0..(k - 1) |-> {i}]
          IN  /\ call' = [ op |-> "mergeClusters", distMat |-> distMat,
                           communities |-> communities, eps |-> eps,
                           communityIDs |-> [i \in 0..(k - 1) |-> i] ]
              /\ stack' = <<mergeFrame(distMat, communities, eps)>>
    /\ ret' = NoValue
    /\ UNCHANGED <<cm, fatal, heap, qm>>

\* steps 1 to 5 of the innermost activation, up to its return or to the
\* call of step 5; make([]map[uint]bool, -1) is a run-time panic
MergeStep ==
    /\ ~fatal /\ stack # <<>>
    /\ LET top == Len(stack)
           fr  == stack[top]
       IN  /\ fr.fn = "mergeClusters"
           /\ \E found \in findMinDist(fr.distMat) :
                IF FloatGreater(found.minDist, fr.eps)
                THEN /\ ret' = [kind |-> "clusters", clusters |-> fr.communities]
                     /\ stack' = <<>>
                     /\ UNCHANGED fatal
                ELSE IF SliceLen(fr.communities) = 0
                THEN /\ fatal' = TRUE
                     /\ ret' = [kind |-> "panic"]
                     /\ UNCHANGED stack
                ELSE LET iMinDist == IF found.iMinDist > found.jMinDist
                                     THEN found.jMinDist ELSE found.iMinDist
                         jMinDist == IF found.iMinDist > found.jMinDist
                                     THEN found.iMinDist ELSE found.jMinDist
                         newCommunities ==
                             mergedCommunities(fr.communities, iMinDist, jMinDist)
                     IN  \E newDistMat \in mergedDistMats(fr.distMat,
                                 SliceLen(newCommunities), iMinDist, jMinDist) :
                            /\ stack' = Append([stack EXCEPT ![top] =
                                             [fr EXCEPT !.iMinDist = iMinDist,
                                                        !.jMinDist = jMinDist]],
                                             mergeFrame(newDistMat, newCommunities, fr.eps))
                            /\ UNCHANGED <<ret, fatal>>
    /\ UNCHANGED <<cm, call, heap, qm>>

\* func (cm ConcurrenceModel) AHC, steps 1 to 3.  order is the order in which
\* "range cm.concurrences" of step 1 gives the nodes: the node order[i] gets
\* the community i.  A node that no row of simMat or no entry of its row is
\* stored for has the similarity 0.0 of a missing map element.
ahcStart(m, order, simType) ==
    LET communityIDs == [u \in 0..(m.n - 1) |->
                            IF \E i \in DOMAIN order : order[i] = u
                            THEN CHOOSE i \in DOMAIN order : order[i] = u
                            ELSE 0]
        communities  == [i \in DOMAIN order |-> {order[i]}]
        simMat       == similarityMatrix(m, simType)
        simOf(u, v)  == IF u \in DOMAIN simMat /\ v \in DOMAIN simMat[u]
                        THEN simMat[u][v] ELSE Rat(0, 1)
        ivs(u)       == {communityIDs[v] : v \in DOMAIN m.concurrences[u] \ {u}}
        distMat      == [iu \in DOMAIN order |->
                            LET u == order[iu]
                            IN  [iv \in ivs(u) |-> FloatSub(One, simOf(u, order[iv]))]]
    IN  [communityIDs |-> communityIDs, communities |-> communities, distMat |-> distMat]

\* the similarity types whose similarities are computed exactly
ExactSimTypes == {0, 2, 3}

\* cm.AHC(eps, simType), up to the call of mergeClusters
AHC ==
    /\ ~fatal /\ call.op = "SetConcurrences" /\ stack = <<>>
    /\ \E eps \in MergeEps : \E simType \in ExactSimTypes :
       \E order \in Orders(DOMAIN cm.concurrences) :
       \E in \in {ahcStart(cm, [i \in 0..(Len(order) - 1) |-> order[i + 1]], simType)} :
          /\ call' = [ op |-> "AHC", eps |-> eps, simType |-> simType,
                       distMat |-> in.distMat, communities |-> in.communities,
                       communityIDs |-> in.communityIDs ]
          /\ stack' = <<mergeFrame(in.distMat, in.communities, eps)>>
    /\ ret' = NoValue
    /\ UNCHANGED <<cm, fatal, heap, qm>>

NextMerge == ConstructScanGraph \/ AHC \/ MergeClusters \/ MergeStep

SpecMerge == Init /\ [][NextMerge]_vars

(***************************************************************************)
(* Claims about mergeClusters                                               *)
(***************************************************************************)
\* the entry of distMat for the clusters i and j, NoValue if there is none
storedDistance(distMat, i, j) ==
    IF j \in DOMAIN distMat[i] THEN distMat[i][j] ELSE NoValue

\* the calls that hand clusters to mergeClusters
MergeCalls == {"mergeClusters", "AHC"}

\* the distance stored at the call between the members u and v
initialDistance(u, v) ==
    storedDistance(call.distMat, call.communityIDs[u], call.communityIDs[v])

\* C22: when mergeClusters, called by AHC or with any symmetric distance
\* matrix on single member clusters, with eps < 1, returns, no further
\* merge is possible: for every two distinct returned clusters, every distance stored at the call between a member of
\* the one and a member of the other exceeds eps.
C22_SingleLinkageOutcome ==
    ( /\ call.op \in MergeCalls
      /\ FloatGreater(One, call.eps)
      /\ ret.kind = "clusters" )
        => \A a, b \in DOMAIN ret.clusters :
              a # b => \A u \in ret.clusters[a], v \in ret.clusters[b] :
                          initialDistance(u, v) # NoValue
                              => FloatGreater(initialDistance(u, v), call.eps)

\* the index that the cluster k of an activation has in the next one, after
\* the merge of j into i
shifted(k, j) == IF k > j THEN k - 1 ELSE k

\* min(x, y) where a missing entry counts as no link
linkMin(x, y) ==
    IF x = NoValue THEN y ELSE IF y = NoValue THEN x ELSE FloatMin(x, y)

\* C23: when mergeClusters merges the cluster j into the cluster i (i < j),
\* the new distance matrix has, for every other cluster k, newDist(i, k) =
\* newDist(k, i) = min(oldDist(i, k), oldDist(j, k)), a missing entry
\* counting as no link, and the distances between clusters other than i and
\* j are carried over under the shift of the indices.
C23_SingleLinkageUpdate ==
    \A d \in DOMAIN stack :
        ( /\ d < Len(stack)
          /\ stack[d].fn = "mergeClusters"
          /\ stack[d].iMinDist < stack[d].jMinDist )
            => LET old == stack[d].distMat
                   new == stack[d + 1].distMat
                   i   == stack[d].iMinDist
                   j   == stack[d].jMinDist
                   others == DOMAIN old \ {i, j}
               IN  /\ \A k \in others :
                         /\ storedDistance(new, i, shifted(k, j))
                               = linkMin(storedDistance(old, i, k),
                                         storedDistance(old, j, k))
                         /\ storedDistance(new, shifted(k, j), i)
                               = storedDistance(new, i, shifted(k, j))
                   /\ \A k, l \in others :
                         storedDistance(new, shifted(k, j), shifted(l, j))
                             = storedDistance(old, k, l)

\* the members that the list of clusters c holds, each as often as it is held
membersOf(c) == UNION {c[i] : i \in DOMAIN c}

\* C30: for every distance matrix, every non-empty list of disjoint input
\* clusters and every eps, eps >= 1.0 and matrices without an entry below
\* 1.0 included, mergeClusters returns normally, and the returned clusters
\* hold the members of the input clusters, every member in exactly one.
C30_MembersPreserved ==
    (call.op \in MergeCalls /\ SliceLen(call.communities) >= 1)
        => /\ ~fatal
           /\ ret.kind = "clusters"
                => /\ membersOf(ret.clusters) = membersOf(call.communities)
                   /\ \A a, b \in DOMAIN ret.clusters :
                         a # b => ret.clusters[a] \cap ret.clusters[b] = {}

(***************************************************************************)
(* Claims about the steps of Louvain and Leiden                             *)
(***************************************************************************)
Optimizers == {"Louvain", "Leiden"}

\* the activations of Louvain and Leiden that another activation called
NestedActivations == {d \in DOMAIN stack : d > 1 /\ stack[d].fn \in Optimizers}

\* C24: with multiple resolution, after the local-moving phase the
\* optimizer calls itself on the aggregated quality model (qm.Aggregate of
\* the compacted partition) with an empty initial partition: the nested
\* activation works on the nodes of the aggregated model, and it starts
\* from one single point community for each of them.
C24_RecursesOnAggregate ==
    \A d \in NestedActivations :
        /\ SliceLen(stack[d].communityIDs) = GetN(stack[d - 1].newQM)
        /\ stack[d].m = GetN(stack[d - 1].newQM)
        /\ stack[d].sweeps = 0
              => \A c \in DOMAIN stack[d].result :
                    Cardinality(heap[stack[d].result[c]]) = 1


\* the indices of the groups of the partition that hold the node u
groupsOf(communities, u) == {c \in DOMAIN communities : u \in communities[c]}

\* every node of 0..n-1 is in exactly one group of the partition
IsPartition(n, communities) ==
    \A u \in 0..(n - 1) : Cardinality(groupsOf(communities, u)) = 1

\* C25: at every point between the moves of the local-moving phase of
\* Louvain and Leiden, every node of 0..n-1 is in exactly one group of the
\* working partition, and communityIDs[u] is the index of that group: this
\* holds between the iterations of step 4, every accepted move takes its
\* node out of the one group that holds it, the group communityIDs gave for
\* it, and leaves a partition.
C25_GroupOfAgrees ==
    \A d \in DOMAIN stack :
        (stack[d].fn \in Optimizers /\ stack[d].pc = "loop")
            => /\ \A u \in 0..(cm.n - 1) :
                     groupsOf(Deref(heap, stack[d].result), u)
                         = {stack[d].communityIDs[u]}
               /\ \A i \in DOMAIN stack[d].moved :
                     LET mv == stack[d].moved[i]
                     IN  /\ groupsOf(mv.before, mv.u) = {mv.oldCu}
                         /\ IsPartition(cm.n, mv.before)
                         /\ IsPartition(cm.n, AfterMove(mv))

\* the loop of step 4 goes on after an iteration that moved a node
C25_Witness ==
    /\ stack # <<>>
    /\ stack[1].fn \in Optimizers /\ stack[1].pc = "loop"
    /\ stack[1].moved # <<>>
    /\ cm.n = 2


\* the innermost activation
Top == stack[Len(stack)]

\* this step is one iteration of the loop of step 4 of the innermost
\* activation
IsIteration ==
    /\ stack # <<>> /\ ~fatal /\ ~fatal'
    /\ Top.fn \in Optimizers /\ Top.pc = "loop"
    /\ Len(stack') = Len(stack)
    /\ Top'.sweeps = Top.sweeps + 1

\* deltaQuality of the move of u from its group to the group g of P
deltaOf(P, u, g) ==
    DeltaQuality(qm, cm, P, u, CHOOSE c \in groupsOf(P, u) : TRUE, g)

\* g attains the maximum of the deltas of u over the group indices, and
\* that maximum is strictly greater than 0
IsBestPositive(P, u, g) ==
    /\ FloatGreater(deltaOf(P, u, g), Zero)
    /\ \A h \in DOMAIN P : ~FloatGreater(deltaOf(P, u, h), deltaOf(P, u, g))

RECURSIVE SweptAsStated(_, _, _, _, _)
\* the sweep over points[i], points[i+1], ... that starts on the partition P
\* makes exactly the moves of the list moved and ends on the partition final:
\* a node moves iff some group index has a best, strictly positive delta
\* for it, it then goes to another group, one of the best ones, and
\* otherwise nothing changes
SweptAsStated(points, i, P, moved, final) ==
    IF i >= SliceLen(points) THEN P = final
    ELSE LET u    == points[i]
             mine == {k \in DOMAIN moved : moved[k].u = u}
         IN  /\ (mine # {}) <=> (\E g \in DOMAIN P : IsBestPositive(P, u, g))
             /\ Cardinality(mine) <= 1
             /\ \A k \in mine :
                   /\ moved[k].before = P
                   /\ moved[k].oldCu \in groupsOf(P, u)
                   /\ moved[k].newCu # moved[k].oldCu
                   /\ IsBestPositive(P, u, moved[k].newCu)
             /\ SweptAsStated(points, i + 1,
                    IF mine = {} THEN P
                    ELSE AfterMove(moved[CHOOSE k \in mine : TRUE]),
                    moved, final)

\* C26: sequential selector.  In a sweep every visited node u changes its
\* group iff the maximum of DeltaQuality(current, u, groupOf(u), g) over all
\* group indices g is strictly greater than 0, and it then moves to a group
\* that attains the maximum; otherwise (a tie with staying put included) u
\* and all groups stay as they are.  The loop ends exactly after the first
\* sweep that makes no move.
C26_SequentialSelector ==
    [][ (IsIteration /\ Top.o.useSeqSelector)
            => /\ \E points \in PointOrders(cm.n, Top.o.shuffle) :
                    SweptAsStated(points, 0, Deref(heap, Top.result), Top'.moved,
                                  Deref(heap', Top'.result))
               /\ Top'.pc = IF Top'.moved = <<>> THEN "compact" ELSE "loop" ]_vars

\* a sweep that moved a node was followed by a sweep without a move, which
\* ended the loop
C26_Witness ==
    /\ stack # <<>>
    /\ stack[1].fn \in Optimizers /\ stack[1].o.useSeqSelector
    /\ stack[1].sweeps = 2 /\ stack[1].pc = "compact"
    /\ \E c \in DOMAIN stack[1].result : Cardinality(heap[stack[1].result[c]]) = 2


\* this step is what the innermost activation does next in the loop of
\* step 4 with the priority selector
IsPriorityStep ==
    /\ stack # <<>> /\ ~fatal
    /\ Top.fn \in Optimizers /\ Top.pc = "loop" /\ ~Top.o.useSeqSelector
    /\ <<stack, fatal>>' # <<stack, fatal>>

\* the delta of the pair (u, g) is strictly positive and the maximum over
\* all nodes and all group indices of P
IsBestPair(P, u, g) ==
    /\ FloatGreater(deltaOf(P, u, g), Zero)
    /\ \A v \in 0..(cm.n - 1) : \A h \in DOMAIN P :
          ~FloatGreater(deltaOf(P, v, h), deltaOf(P, u, g))

\* C27: priority selector.  Each iteration of the local-moving loop makes
\* exactly one move, of a (node, target group) pair whose DeltaQuality is
\* the maximum over all nodes and all group indices of the current
\* partition and is strictly positive; when no pair has a strictly positive
\* delta, the loop stops and the partition is left as it is.
C27_PrioritySelector ==
    [][ IsPriorityStep
            => LET P == Deref(heap, Top.result)
               IN  /\ ~fatal' /\ Len(stack') = Len(stack)
                   /\ IF \E u \in 0..(cm.n - 1) : \E g \in DOMAIN P :
                            FloatGreater(deltaOf(P, u, g), Zero)
                      THEN /\ Top'.pc = "loop"
                           /\ \E u \in 0..(cm.n - 1) : \E g \in DOMAIN P :
                                 /\ IsBestPair(P, u, g)
                                 /\ g \notin groupsOf(P, u)
                                 /\ Deref(heap', Top'.result)
                                       = movePoint(P, u, CHOOSE c \in groupsOf(P, u) : TRUE, g)
                      ELSE /\ Top'.pc = "compact"
                           /\ Deref(heap', Top'.result) = P ]_vars


\* x <= y on float64 values: false if one of them is NaN
FloatLessEq(x, y) == ~IsNaN(x) /\ ~IsNaN(y) /\ x.num * y.den <= y.num * x.den

\* a call of Louvain or Leiden with "single resolution" has returned
SingleResolutionReturned ==
    /\ call.op \in Optimizers
    /\ ~parseOptions(call.opts, DefaultOptions).multiResolution
    /\ ret.kind = "communities"

\* the returned partition has no empty group and holds every node of
\* 0..n-1 exactly once
ReturnedIsCompactPartition ==
    LET returned == Deref(heap, ret.communities)
    IN  /\ \A c \in DOMAIN returned : returned[c] # {}
        /\ IsPartition(cm.n, returned)
        /\ UNION {returned[c] : c \in DOMAIN returned} = 0..(cm.n - 1)

\* C28 as stated: the partition returned by Louvain or Leiden called with
\* "single resolution" has no empty group, covers every node of 0..n-1
\* exactly once, and is a local optimum of the delta of the model: for
\* every node u and every group B of it, DeltaQuality(returned, u, group of
\* u, B) <= 0.
C28_SingleResolutionResult ==
    SingleResolutionReturned
        => /\ ReturnedIsCompactPartition
           /\ LET returned == Deref(heap, ret.communities)
              IN  \A u \in 0..(cm.n - 1) : \A B \in DOMAIN returned :
                      FloatLessEq(deltaOf(returned, u, B), Zero)

\* C28, amended: the same, with the local optimum stated as the loop of
\* step 4 tests it: for every node u and every group B of the returned
\* partition, DeltaQuality(returned, u, group of u, B) is not greater than
\* 0; it is <= 0 or, for Modularity on a graph whose weights sum to 0, NaN.
C28_NoImprovingMove ==
    SingleResolutionReturned
        => /\ ReturnedIsCompactPartition
           /\ LET returned == Deref(heap, ret.communities)
              IN  \A u \in 0..(cm.n - 1) : \A B \in DOMAIN returned :
                      LET delta == deltaOf(returned, u, B)
                      IN  /\ ~FloatGreater(delta, Zero)
                          /\ IsNaN(delta)
                                => (qm.kind = "Modularity" /\ cm.sumConcurrences = 0)

\* a run that moved a node and dropped the group it left empty has returned
C28_Witness ==
    /\ SingleResolutionReturned
    /\ cm.n = 2 /\ cm.sumConcurrences > 0
    /\ SliceLen(ret.communities) = 1
    /\ heap[ret.communities[0]] = {0, 1}
    /\ call.given = EmptyMap


(***************************************************************************)
(* Density connectivity of the method DBScan.  similarity(p, q) is the      *)
(* entry of q in the row of p of the similarity matrix, which the rows of   *)
(* getCorePoints and getNeighbors range over; a pair without an entry has   *)
(* no similarity.  The matrices are symmetric: both entries of a pair exist *)
(* and pass the test together.                                              *)
(***************************************************************************)
\* the similarity matrix of the call of DBScan
ScanMatrix == similarityMatrix(cm, call.simType)

\* the core points of the call of DBScan
ScanCorePts == DOMAIN getCorePoints(ScanMatrix, call.eps, call.minPts, call.passing).corePts

\* similarity(p, q) + eps >= 1.0
Near(p, q) == q \in neighborhood(ScanMatrix, call.eps, call.passing, p)

=============================================================================
